---- MODULE Spec2Model ----
(***************************************************************************)
(* Model of argpar (rzikm/argpar): the option / positional registry of     *)
(* argpar::parser and the parse() algorithm of src/src/argpar.cpp.         *)
(*                                                                         *)
(* Strings are sequences of one-character strings, so that the scanner's   *)
(* indexing (arg[0], arg[1], arg.find('='), substr) is modelled as it is   *)
(* written.  Indices into C++ containers are 0-based in the code and are   *)
(* kept 0-based here: element k of a C++ vector v is v[k + 1].             *)
(***************************************************************************)
EXTENDS Integers, Sequences, FiniteSets, TLC

(***************************************************************************)
(* Bounds of the exploration                                               *)
(***************************************************************************)
\* longest token vector (argv without the program name) handed to parse()
MaxTokens == 3
\* number of parse() calls made on one parser instance
MaxParses == 2

(***************************************************************************)
(* Program constants                                                       *)
(***************************************************************************)
\* std::numeric_limits<int>::min() / max(): the default bounds of int_cfg
INT_MIN == (0 - 2147483647) - 1
INT_MAX == 2147483647

(***************************************************************************)
(* Strings and characters                                                  *)
(***************************************************************************)
EmptyStr == << >>
Digits == <<"0", "1", "2", "3", "4", "5", "6", "7", "8", "9">>
IsDigit(c) == \E d \in 1..10 : Digits[d] = c
DigitVal(c) == (CHOOSE d \in 1..10 : Digits[d] = c) - 1

\* the value of a char when it is promoted to int (ASCII), for the characters
\* the model uses
CharCode(c) ==
    CASE c = "-" -> 45
      [] c = "=" -> 61
      [] c = "a" -> 97
      [] c = "b" -> 98
      [] c = "c" -> 99
      [] c = "d" -> 100
      [] c = "f" -> 102
      [] c = "m" -> 109
      [] c = "o" -> 111
      [] c = "x" -> 120
      [] c = "y" -> 121
      [] c = "z" -> 122
      [] IsDigit(c) -> 48 + DigitVal(c)
      [] OTHER -> 63

\* std::to_string(int) for n >= 0: the decimal digits of n
RECURSIVE to_string(_)
to_string(n) ==
    IF n < 10 THEN <<Digits[n + 1]>>
    ELSE Append(to_string(n \div 10), Digits[(n % 10) + 1])

\* std::string::find(ch): 0-based position of the first ch, or npos (-1 here)
npos == -1
find(s, ch) ==
    IF \E k \in 1..Len(s) : s[k] = ch
    THEN (CHOOSE k \in 1..Len(s) : s[k] = ch /\ \A j \in 1..(k - 1) : s[j] # ch) - 1
    ELSE npos

\* std::string::substr(pos, count) with 0-based pos; count = npos - 2 and any
\* other count past the end (size_t wrap-around) read to the end of the string
substr(s, pos, count) ==
    LET last == IF count < 0 \/ pos + count > Len(s) THEN Len(s) ELSE pos + count
    IN  SubSeq(s, pos + 1, last)

(***************************************************************************)
(* Values written to the caller's destinations                             *)
(***************************************************************************)
IntV(n)  == [t |-> "int",  n |-> n, s |-> EmptyStr, b |-> FALSE, l |-> << >>]
StrV(s)  == [t |-> "str",  n |-> 0, s |-> s,        b |-> FALSE, l |-> << >>]
BoolV(b) == [t |-> "bool", n |-> 0, s |-> EmptyStr, b |-> b,     l |-> << >>]
ListV(l) == [t |-> "list", n |-> 0, s |-> EmptyStr, b |-> FALSE, l |-> l]

\* std::optional<std::string>
nullopt == [has_value |-> FALSE, value |-> EmptyStr]
Some(s) == [has_value |-> TRUE, value |-> s]

(***************************************************************************)
(* Exceptions                                                              *)
(***************************************************************************)
NoExc == [type |-> "none", name |-> EmptyStr, value |-> EmptyStr]
Exc(type) == [type |-> type, name |-> EmptyStr, value |-> EmptyStr]
invalid_argument == Exc("invalid_argument")
logic_error == Exc("logic_error")
format_error == Exc("format_error")
bad_option(name) == [type |-> "bad_option", name |-> name, value |-> EmptyStr]
\* bad_value::bad_value: neither constructor initialises value_ from its
\* value parameter, so value() is the empty string whatever was passed
bad_value(name, value) == [type |-> "bad_value", name |-> name, value |-> EmptyStr]
missing_option(name) == [type |-> "missing_option", name |-> name, value |-> EmptyStr]
missing_value(name) == [type |-> "missing_value", name |-> name, value |-> EmptyStr]

\* the types derived from argpar::argpar_exception
argpar_exception ==
    {"format_error", "bad_option", "bad_value", "missing_option", "missing_value"}
\* the types derived from argpar::parse_error
parse_error == {"bad_option", "bad_value", "missing_option", "missing_value"}

(***************************************************************************)
(* Value coercers: cfg_base, string_cfg, cfg_integral_base (int_cfg)       *)
(***************************************************************************)
\* A value handler together with its coercer configuration.  kind = "none"
\* stands for a null handler_ pointer (no value configured).
NoHandler ==
    [kind |-> "none", multi |-> FALSE, name |-> EmptyStr, dest |-> "",
     has_default |-> FALSE, default |-> IntV(0),
     min_value_ |-> INT_MIN, max_value_ |-> INT_MAX, values_ |-> << >>]

\* cfg_base::with_default
with_default(h, value) == [h EXCEPT !.has_default = TRUE, !.default = value]

\* cfg_integral_base::between; returns the handler and the exception raised:
\* the bounds are stored as they are given
between(h, min, max) ==
    [handler |-> [h EXCEPT !.min_value_ = min, !.max_value_ = max], exc |-> NoExc]

\* string_cfg::from
from(h, values) ==
    IF Len(values) = 0
    THEN [handler |-> h, exc |-> invalid_argument]
    ELSE [handler |-> [h EXCEPT !.values_ = values], exc |-> NoExc]

\* string_cfg::parse: the token itself, unless an allowed set is configured
\* and std::find finds the token in it (find(...) != values_.end())
string_parse(h, value) ==
    IF Len(h.values_) # 0 /\ (\E k \in 1..Len(h.values_) : h.values_[k] = value)
    THEN [exc |-> format_error, val |-> StrV(value)]
    ELSE [exc |-> NoExc, val |-> StrV(value)]

\* number of leading decimal digits of s from 1-based position p
RECURSIVE DigitRun(_, _)
DigitRun(s, p) ==
    IF p <= Len(s) /\ IsDigit(s[p]) THEN 1 + DigitRun(s, p + 1) ELSE 0

\* value of the digit string s[p .. p + d - 1]
RECURSIVE DigitsValue(_, _, _)
DigitsValue(s, p, d) ==
    IF d = 0 THEN 0
    ELSE 10 * DigitsValue(s, p, d - 1) + DigitVal(s[p + d - 1])

\* number of leading "0" characters of s from 1-based position p
RECURSIVE ZeroRun(_, _)
ZeroRun(s, p) ==
    IF p <= Len(s) /\ s[p] = "0" THEN 1 + ZeroRun(s, p + 1) ELSE 0

\* std::stringstream ss(value); ss >> val for int: an optional sign and then
\* the longest run of digits.  fail: no digit was read or the value does not
\* fit an int (it is decided on the digits, without computing a number wider
\* than an int); eof: the extraction ran into the end of the string; pos: the
\* 0-based read position after the digits.
\* neg: a "-" sign was read; start: 1-based position of the first digit;
\* d: number of digits; z: number of leading zeros; sd: significant digits;
\* head: the first nine significant digits; last: the tenth.
int_extract(value) ==
    LET hasSign == Len(value) > 0 /\ value[1] \in {"+", "-"}
        stream(start, d, overflow, v) ==
            [fail |-> d = 0 \/ overflow,
             eof |-> start + d > Len(value),
             pos |-> (start - 1) + d,
             val |-> IF overflow THEN 0 ELSE v]
        number(neg, start, d, sd, head, last) ==
            stream(start, d,
                   \/ sd > 10
                   \/ /\ sd = 10
                      /\ \/ head > INT_MAX \div 10
                         \/ /\ head = INT_MAX \div 10
                            /\ last > (IF neg THEN 8 ELSE 7),
                   IF sd = 10
                   THEN (IF neg THEN ((0 - head) * 10) - last ELSE head * 10 + last)
                   ELSE (IF neg THEN 0 - head ELSE head))
        significant(neg, start, d, z, sd) ==
            number(neg, start, d, sd,
                   DigitsValue(value, start + z, IF sd > 9 THEN 9 ELSE sd),
                   IF sd = 10 THEN DigitVal(value[start + z + 9]) ELSE 0)
        digits(neg, start, d, z) == significant(neg, start, d, z, d - z)
        signed(neg, start) ==
            digits(neg, start, DigitRun(value, start), ZeroRun(value, start))
    IN  signed(hasSign /\ value[1] = "-", IF hasSign THEN 2 ELSE 1)

\* std::istream::tellg after the extraction: its sentry fails on a stream
\* that is not good(), so the position is pos_type(-1) once eofbit is set,
\* and the 0-based read position otherwise
tellg(ss) == IF ss.fail \/ ss.eof THEN 0 - 1 ELSE ss.pos

\* cfg_integral_base<int_cfg, int>::parse
int_parse(h, value) ==
    LET checked(ss) ==
            IF ss.fail \/ tellg(ss) # Len(value)
            THEN [exc |-> format_error, val |-> IntV(0)]
            ELSE IF ss.val > h.max_value_ \/ ss.val < h.min_value_
            THEN [exc |-> format_error, val |-> IntV(ss.val)]
            ELSE [exc |-> NoExc, val |-> IntV(ss.val)]
    IN  checked(int_extract(value))

\* TConfig::parse of the handler's configuration
config_parse(h, value) ==
    IF h.kind = "int" THEN int_parse(h, value) ELSE string_parse(h, value)

(***************************************************************************)
(* Value handlers: single_value_handler, multi_value_handler               *)
(***************************************************************************)
\* value_handler::parse: coerce the token and write it through dest_; the
\* destination is written only when the coercer returns
\* a handler that resets the destination when the coercer rejects the text
handler_parse_clears(h, M, value) ==
    LET write(r) ==
            IF r.exc.type # "none"
            THEN [mem |-> [M EXCEPT ![h.dest] = IF h.multi THEN ListV(<< >>)
                                                ELSE StrV(EmptyStr)],
                  exc |-> r.exc]
            ELSE IF h.multi
            THEN [mem |-> [M EXCEPT ![h.dest] = ListV(Append(M[h.dest].l, r.val))],
                  exc |-> NoExc]
            ELSE [mem |-> [M EXCEPT ![h.dest] = r.val], exc |-> NoExc]
    IN  write(config_parse(h, value))

\* a list handler that assigns the destination instead of appending to it
handler_parse_replaces(h, M, value) ==
    LET write(r) ==
            IF r.exc.type # "none" THEN [mem |-> M, exc |-> r.exc]
            ELSE IF h.multi
            THEN [mem |-> [M EXCEPT ![h.dest] = ListV(<<r.val>>)], exc |-> NoExc]
            ELSE [mem |-> [M EXCEPT ![h.dest] = r.val], exc |-> NoExc]
    IN  write(config_parse(h, value))

handler_parse(h, M, value) ==
    LET write(r) ==
            IF r.exc.type # "none" THEN [mem |-> M, exc |-> r.exc]
            ELSE IF h.multi
            THEN [mem |-> [M EXCEPT ![h.dest] = ListV(Append(M[h.dest].l, r.val))],
                  exc |-> NoExc]
            ELSE [mem |-> [M EXCEPT ![h.dest] = r.val], exc |-> NoExc]
    IN  write(config_parse(h, value))

\* value_handler::set_default: nothing for a list
handler_set_default(h, M) ==
    IF h.multi THEN M ELSE [M EXCEPT ![h.dest] = h.default]

\* custom_val that installs the handler before it checks the name: an empty
\* name still throws, with the slot configured
custom_val_checks_late(h, kind, multi, name, dest) ==
    IF dest = "" THEN [handler |-> h, exc |-> invalid_argument]
    ELSE IF h.kind # "none" /\ Len(name) # 0 THEN [handler |-> h, exc |-> logic_error]
    ELSE [handler |-> [NoHandler EXCEPT !.kind = kind, !.multi = multi,
                                        !.name = name, !.dest = dest,
                                        !.default = IF kind = "int" THEN IntV(0) ELSE StrV(EmptyStr)],
          exc |-> IF Len(name) = 0 THEN invalid_argument ELSE NoExc]

\* custom_val without the check of handler_: a second configuration replaces
\* the first
custom_val_overwrites(h, kind, multi, name, dest) ==
    IF Len(name) = 0 THEN [handler |-> h, exc |-> invalid_argument]
    ELSE IF dest = "" THEN [handler |-> h, exc |-> invalid_argument]
    ELSE [handler |-> [NoHandler EXCEPT !.kind = kind, !.multi = multi,
                                        !.name = name, !.dest = dest,
                                        !.default = IF kind = "int" THEN IntV(0) ELSE StrV(EmptyStr)],
          exc |-> NoExc]

\* value_config::custom_val / value_list_config::custom_val on the slot that
\* currently holds handler h
custom_val(h, kind, multi, name, dest) ==
    IF Len(name) = 0 THEN [handler |-> h, exc |-> invalid_argument]
    ELSE IF dest = "" THEN [handler |-> h, exc |-> invalid_argument]
    ELSE IF h.kind # "none" THEN [handler |-> h, exc |-> logic_error]
    ELSE [handler |-> [NoHandler EXCEPT !.kind = kind, !.multi = multi,
                                        !.name = name, !.dest = dest,
                                        !.default = IF kind = "int" THEN IntV(0) ELSE StrV(EmptyStr)],
          exc |-> NoExc]

(***************************************************************************)
(* argpar::option                                                          *)
(***************************************************************************)
\* A pointer to an option is the identity the option got when it was
\* allocated; nullptr is 0.
nullptr == 0

\* option::option: flag_dest is the name of the caller's bool cell, "" for
\* a null flag_dest (the option is then mandatory)
new_option(id, aliases, flag_dest) ==
    [id |-> id, aliases_ |-> aliases, flag_dest_ |-> flag_dest,
     handler_ |-> NoHandler, found_ |-> FALSE]

\* every option is mandatory, observed or not
mandatory_always(opt) == TRUE

\* option::mandatory
mandatory(opt) == opt.flag_dest_ = ""

\* option::arg_type
arg_type(opt) ==
    IF opt.handler_.kind = "none" THEN "no_arg"
    ELSE IF opt.handler_.has_default THEN "optional"
    ELSE "mandatory"

(***************************************************************************)
(* argpar::parser: the registry                                            *)
(***************************************************************************)
\* parser::parser: nothing is declared.  The alias maps are sets of
\* <<alias, option pointer>> pairs with at most one pair for an alias.
\* freed_ is not a member of the class: it is the memory of the options that
\* were destroyed (in declaration order), as they were when they were
\* destroyed, which is what a pointer that outlives its option points into.
new_parser ==
    [options_ |-> << >>, long_to_option_ |-> {}, short_to_option_ |-> {},
     additional_arguments_ |-> [has_value |-> FALSE, handler_ |-> NoHandler],
     positional_arguments_ |-> << >>, next_id |-> 1, freed_ |-> << >>]

\* the pointer refers to an option that options_ owns
Live(P, ptr) == \E k \in 1..Len(P.options_) : P.options_[k].id = ptr

\* position in options_ of the option a pointer refers to
OptionAt(P, ptr) == CHOOSE k \in 1..Len(P.options_) : P.options_[k].id = ptr
Deref(P, ptr) == P.options_[OptionAt(P, ptr)]

\* an insertion that replaces the pair the map holds for the key
try_emplace_overwrites(map, key, ptr) ==
    [map |-> {e \in map : e[1] # key} \cup {<<key, ptr>>}, inserted |-> TRUE]

\* std::unordered_map::try_emplace
try_emplace(map, key, ptr) ==
    IF \E e \in map : e[1] = key
    THEN [map |-> map, inserted |-> FALSE]
    ELSE [map |-> map \cup {<<key, ptr>>}, inserted |-> TRUE]

\* parser::add_aliases from the k-th alias (0-based) on: the aliases before
\* a rejected one stay registered
RECURSIVE add_aliases_from(_, _, _, _)
add_aliases_from(P, aliases, ptr, k) ==
    IF k >= Len(aliases) THEN [parser |-> P, exc |-> NoExc]
    ELSE LET alias == aliases[k + 1] IN
         IF Len(alias) = 0 THEN [parser |-> P, exc |-> invalid_argument]
         ELSE IF Len(alias) = 1
         THEN LET r == try_emplace(P.short_to_option_, alias[1], ptr) IN
              IF r.inserted
              THEN add_aliases_from([P EXCEPT !.short_to_option_ = r.map], aliases, ptr, k + 1)
              ELSE [parser |-> P, exc |-> invalid_argument]
         ELSE LET r == try_emplace(P.long_to_option_, alias, ptr) IN
              IF r.inserted
              THEN add_aliases_from([P EXCEPT !.long_to_option_ = r.map], aliases, ptr, k + 1)
              ELSE [parser |-> P, exc |-> invalid_argument]

\* add_aliases that registers the first alias only
add_aliases_first_only(P, aliases, ptr) ==
    IF Len(aliases) = 0 THEN [parser |-> P, exc |-> invalid_argument]
    ELSE add_aliases_from(P, <<aliases[1]>>, ptr, 0)

\* parser::add_aliases
add_aliases(P, aliases, ptr) ==
    IF Len(aliases) = 0 THEN [parser |-> P, exc |-> invalid_argument]
    ELSE add_aliases_from(P, aliases, ptr, 0)

\* parser::option (both overloads; flag_dest = "" is the overload without
\* opt_dest): the option is allocated, its aliases are registered and only
\* then is it appended to options_.  When add_aliases throws, the unique_ptr
\* destroys the option while the aliases registered before the rejected one
\* stay in the maps.
option(P, aliases, flag_dest) ==
    LET ptr == P.next_id
        registered(r) ==
            IF r.exc.type # "none"
            THEN [parser |-> [r.parser EXCEPT !.freed_ =
                                  Append(@, new_option(ptr, aliases, flag_dest))],
                  exc |-> r.exc]
            ELSE [parser |-> [r.parser EXCEPT !.options_ =
                                  Append(@, new_option(ptr, aliases, flag_dest))],
                  exc |-> NoExc]
    IN  registered(add_aliases([P EXCEPT !.next_id = ptr + 1], aliases, ptr))

\* parser::argument
argument(P) ==
    IF P.additional_arguments_.has_value
    THEN [parser |-> P, exc |-> logic_error]
    ELSE [parser |-> [P EXCEPT !.positional_arguments_ = Append(@, NoHandler)],
          exc |-> NoExc]

\* argument_list that replaces the list slot when it is called again
argument_list_replaces(P) ==
    [parser |-> [P EXCEPT !.additional_arguments_ =
                     [has_value |-> TRUE, handler_ |-> NoHandler]],
     exc |-> NoExc]

\* parser::argument_list
argument_list(P) ==
    IF P.additional_arguments_.has_value
    THEN [parser |-> P, exc |-> logic_error]
    ELSE [parser |-> [P EXCEPT !.additional_arguments_ =
                          [has_value |-> TRUE, handler_ |-> NoHandler]],
          exc |-> NoExc]

\* parser::find_option(std::string const &)
find_option_long(P, name) ==
    IF \E e \in P.long_to_option_ : e[1] = name
    THEN [ptr |-> (CHOOSE e \in P.long_to_option_ : e[1] = name)[2], exc |-> NoExc]
    ELSE [ptr |-> nullptr, exc |-> bad_option(name)]

\* parser::find_option(char): the name of the exception is
\* std::to_string(name), and std::to_string has no overload for char, so the
\* char is promoted to int
find_option_short(P, name) ==
    IF \E e \in P.short_to_option_ : e[1] = name
    THEN [ptr |-> (CHOOSE e \in P.short_to_option_ : e[1] = name)[2], exc |-> NoExc]
    ELSE [ptr |-> nullptr, exc |-> bad_option(to_string(CharCode(name)))]

\* option::set_found on the option ptr points to
set_found(P, M, ptr) ==
    LET k == OptionAt(P, ptr)
        opt == P.options_[k]
    IN  [parser |-> [P EXCEPT !.options_[k].found_ = TRUE],
         mem |-> IF opt.flag_dest_ # "" THEN [M EXCEPT ![opt.flag_dest_] = BoolV(TRUE)] ELSE M]

\* first mandatory option, in declaration order, that was not found; 0 if none
FirstMissing(P) ==
    IF \E k \in 1..Len(P.options_) : mandatory(P.options_[k]) /\ ~P.options_[k].found_
    THEN CHOOSE k \in 1..Len(P.options_) :
             /\ mandatory(P.options_[k]) /\ ~P.options_[k].found_
             /\ \A j \in 1..(k - 1) : ~(mandatory(P.options_[j]) /\ ~P.options_[j].found_)
    ELSE 0

\* verify_options that reports the last mandatory option that was not found
verify_options_reports_last(P) ==
    IF \E k \in 1..Len(P.options_) : mandatory(P.options_[k]) /\ ~P.options_[k].found_
    THEN missing_option(P.options_[CHOOSE k \in 1..Len(P.options_) :
                            /\ mandatory(P.options_[k]) /\ ~P.options_[k].found_
                            /\ \A j \in (k + 1)..Len(P.options_) :
                                   ~(mandatory(P.options_[j]) /\ ~P.options_[j].found_)
                        ].aliases_[1])
    ELSE NoExc

\* parser::verify_options
verify_options(P) ==
    IF FirstMissing(P) # 0
    THEN missing_option(P.options_[FirstMissing(P)].aliases_[1])
    ELSE NoExc

(***************************************************************************)
(* parser::parse: the bodies of its loops                                  *)
(***************************************************************************)
\* set_parsed_value in which an option with a defaulted value that comes
\* without a value is left waiting for the next token, like one whose value
\* is mandatory
set_parsed_value_optional_waits(P, M, current_option, option_name, value) ==
    LET opt == Deref(P, current_option)
        caught(parsed) ==
            IF parsed.exc.type = "format_error"
            THEN [mem |-> M, current_option |-> current_option,
                  exc |-> bad_value(option_name, value.value)]
            ELSE [mem |-> parsed.mem, current_option |-> nullptr, exc |-> NoExc]
        stored == caught(handler_parse(opt.handler_, M, value.value))
    IN  IF arg_type(opt) = "no_arg"
        THEN IF value.has_value
             THEN [mem |-> M, current_option |-> current_option,
                   exc |-> bad_value(option_name, value.value)]
             ELSE [mem |-> M, current_option |-> nullptr, exc |-> NoExc]
        ELSE IF value.has_value
             THEN stored
             ELSE [mem |-> M, current_option |-> current_option, exc |-> NoExc]

\* parser::set_parsed_value: resolves the value requirement of the option
\* current_option points to; current_option is passed by reference and is
\* reset to nullptr when the option is finished.  A format_error of the
\* coercer is rethrown as bad_value(option_name, value).
set_parsed_value(P, M, current_option, option_name, value) ==
    LET opt == Deref(P, current_option)
        caught(parsed) ==
            IF parsed.exc.type = "format_error"
            THEN [mem |-> M, current_option |-> current_option,
                  exc |-> bad_value(option_name, value.value)]
            ELSE [mem |-> parsed.mem, current_option |-> nullptr, exc |-> NoExc]
        stored == caught(handler_parse(opt.handler_, M, value.value))
    IN  CASE arg_type(opt) = "no_arg" ->
                IF value.has_value
                THEN [mem |-> M, current_option |-> current_option,
                      exc |-> bad_value(option_name, value.value)]
                ELSE [mem |-> M, current_option |-> nullptr, exc |-> NoExc]
          [] arg_type(opt) = "optional" ->
                IF value.has_value
                THEN stored
                ELSE [mem |-> handler_set_default(opt.handler_, M),
                      current_option |-> nullptr, exc |-> NoExc]
          [] arg_type(opt) = "mandatory" ->
                IF value.has_value
                THEN stored
                ELSE [mem |-> M, current_option |-> current_option, exc |-> NoExc]

\* the loop over the letters without set_found in its body: only the option
\* the loop ends on is marked found, by the statement after the loop
RECURSIVE condensed_flags_last_only(_, _, _, _, _)
condensed_flags_last_only(P, M, arg, flag_pos, current_option) ==
    IF flag_pos < Len(arg) - 1
    THEN LET f == find_option_short(P, arg[flag_pos + 2]) IN
         IF f.exc.type # "none"
         THEN [parser |-> P, mem |-> M, flag_pos |-> flag_pos + 1,
               current_option |-> current_option, exc |-> f.exc]
         ELSE IF arg_type(Deref(P, f.ptr)) # "no_arg"
         THEN [parser |-> P, mem |-> M, flag_pos |-> flag_pos + 1,
               current_option |-> f.ptr, exc |-> NoExc]
         ELSE condensed_flags_last_only(P, M, arg, flag_pos + 1, f.ptr)
    ELSE [parser |-> P, mem |-> M, flag_pos |-> flag_pos,
          current_option |-> current_option, exc |-> NoExc]

\* the while loop over the letters of a short-option token ("set all
\* condensed flags"): flag_pos is the 0-based index of the last letter looked
\* up; the loop stops at the end of the token or at the first option that
\* takes a value
RECURSIVE condensed_flags(_, _, _, _, _)
condensed_flags(P, M, arg, flag_pos, current_option) ==
    IF flag_pos < Len(arg) - 1
    THEN LET f == find_option_short(P, arg[flag_pos + 2]) IN
         IF f.exc.type # "none"
         THEN [parser |-> P, mem |-> M, flag_pos |-> flag_pos + 1,
               current_option |-> current_option, exc |-> f.exc]
         ELSE IF arg_type(Deref(P, f.ptr)) # "no_arg"
         THEN [parser |-> P, mem |-> M, flag_pos |-> flag_pos + 1,
               current_option |-> f.ptr, exc |-> NoExc]
         ELSE LET sf == set_found(P, M, f.ptr) IN
              condensed_flags(sf.parser, sf.mem, arg, flag_pos + 1, f.ptr)
    ELSE [parser |-> P, mem |-> M, flag_pos |-> flag_pos,
          current_option |-> current_option, exc |-> NoExc]

\* what the statements after the name lookup do: current_option->set_found()
\* and set_parsed_value(current_option, option_name, value)
\* the statements after the lookup in which an option that was found
\* before is passed over: its value requirement is not resolved again
found_and_value_once(P, M, current_option, option_name, value) ==
    IF Deref(P, current_option).found_
    THEN [parser |-> P, mem |-> M, current_option |-> nullptr,
          option_name |-> option_name, exc |-> NoExc, ctl |-> "continue"]
    ELSE LET sf == set_found(P, M, current_option)
             resolved(r) ==
                 [parser |-> sf.parser, mem |-> r.mem, current_option |-> r.current_option,
                  option_name |-> option_name, exc |-> r.exc, ctl |-> "continue"]
         IN  resolved(set_parsed_value(sf.parser, sf.mem, current_option, option_name, value))

found_and_value(P, M, current_option, option_name, value) ==
    LET sf == set_found(P, M, current_option)
        resolved(r) ==
            [parser |-> sf.parser, mem |-> r.mem, current_option |-> r.current_option,
             option_name |-> option_name, exc |-> r.exc, ctl |-> "continue"]
    IN  resolved(set_parsed_value(sf.parser, sf.mem, current_option, option_name, value))

\* a long option token: the name runs from index 2 to the first '=', the
\* value is what follows the '='
\* the long option whose name is everything after "--", "=" included
long_option_unsplit(P, M, arg) ==
    LET option_name == substr(arg, 2, npos)
        f == find_option_long(P, option_name)
    IN  IF f.exc.type # "none"
        THEN [parser |-> P, mem |-> M, current_option |-> nullptr,
              option_name |-> option_name, exc |-> f.exc, ctl |-> "continue"]
        ELSE found_and_value(P, M, f.ptr, option_name, nullopt)

long_option(P, M, arg) ==
    LET eq_pos == find(arg, "=")
        value == IF eq_pos # npos THEN Some(substr(arg, eq_pos + 1, npos)) ELSE nullopt
        option_name == substr(arg, 2, eq_pos - 2)
        f == find_option_long(P, option_name)
    IN  IF f.exc.type # "none"
        THEN [parser |-> P, mem |-> M, current_option |-> nullptr,
              option_name |-> option_name, exc |-> f.exc, ctl |-> "continue"]
        ELSE found_and_value(P, M, f.ptr, option_name, value)

\* a short option token: value stays unset
short_option(P, M, arg, old_name) ==
    LET looked_up(c) ==
            IF c.exc.type # "none"
            THEN [parser |-> c.parser, mem |-> c.mem, current_option |-> c.current_option,
                  option_name |-> old_name, exc |-> c.exc, ctl |-> "continue"]
            ELSE found_and_value(c.parser, c.mem, c.current_option,
                                 <<arg[c.flag_pos + 1]>>, nullopt)
    IN  looked_up(condensed_flags(P, M, arg, 0, nullptr))

\* scan_token in which the token "--" is skipped and the option loop goes on
\* with the token after it
scan_token_separator_skipped(P, M, current_option, option_name, arg) ==
    IF arg = <<"-", "-">>
    THEN [parser |-> P, mem |-> M, current_option |-> current_option,
          option_name |-> option_name, exc |-> NoExc, ctl |-> "continue"]
    ELSE IF current_option # nullptr
    THEN LET resolved(r) ==
                 [parser |-> P, mem |-> r.mem, current_option |-> r.current_option,
                  option_name |-> option_name, exc |-> r.exc, ctl |-> "continue"]
         IN  resolved(set_parsed_value(P, M, current_option, option_name, Some(arg)))
    ELSE IF Len(arg) > 1 /\ arg[1] = "-"
    THEN IF arg[2] = "-"
         THEN long_option(P, M, arg)
         ELSE short_option(P, M, arg, option_name)
    ELSE [parser |-> P, mem |-> M, current_option |-> current_option,
          option_name |-> option_name, exc |-> NoExc, ctl |-> "positional"]

\* scan_token in which the pending option is served before the token is
\* compared with the separator, so that "--" is taken as a value
scan_token_pending_first(P, M, current_option, option_name, arg) ==
    IF current_option # nullptr
    THEN LET resolved(r) ==
                 [parser |-> P, mem |-> r.mem, current_option |-> r.current_option,
                  option_name |-> option_name, exc |-> r.exc, ctl |-> "continue"]
         IN  resolved(set_parsed_value(P, M, current_option, option_name, Some(arg)))
    ELSE IF arg = <<"-", "-">>
    THEN [parser |-> P, mem |-> M, current_option |-> current_option,
          option_name |-> option_name, exc |-> NoExc, ctl |-> "separator"]
    ELSE IF Len(arg) > 1 /\ arg[1] = "-"
    THEN IF arg[2] = "-"
         THEN long_option(P, M, arg)
         ELSE short_option(P, M, arg, option_name)
    ELSE [parser |-> P, mem |-> M, current_option |-> current_option,
          option_name |-> option_name, exc |-> NoExc, ctl |-> "positional"]

\* one iteration of the option loop of parse on the token arg.  ctl tells how
\* the iteration ends: "continue" (next token), "separator" (break after
\* ++i) or "positional" (break without consuming the token)
\* the loop body that steps over a token that is no option and goes on
\* scanning
scan_token_skips_plain(P, M, current_option, option_name, arg) ==
    IF arg = <<"-", "-">>
    THEN [parser |-> P, mem |-> M, current_option |-> current_option,
          option_name |-> option_name, exc |-> NoExc, ctl |-> "separator"]
    ELSE IF current_option # nullptr
    THEN LET resolved(r) ==
                 [parser |-> P, mem |-> r.mem, current_option |-> r.current_option,
                  option_name |-> option_name, exc |-> r.exc, ctl |-> "continue"]
         IN  resolved(set_parsed_value(P, M, current_option, option_name, Some(arg)))
    ELSE IF Len(arg) > 1 /\ arg[1] = "-"
    THEN IF arg[2] = "-"
         THEN long_option(P, M, arg)
         ELSE short_option(P, M, arg, option_name)
    ELSE [parser |-> P, mem |-> M, current_option |-> current_option,
          option_name |-> option_name, exc |-> NoExc, ctl |-> "continue"]

scan_token(P, M, current_option, option_name, arg) ==
    IF arg = <<"-", "-">>
    THEN [parser |-> P, mem |-> M, current_option |-> current_option,
          option_name |-> option_name, exc |-> NoExc, ctl |-> "separator"]
    ELSE IF current_option # nullptr
    THEN LET resolved(r) ==
                 [parser |-> P, mem |-> r.mem, current_option |-> r.current_option,
                  option_name |-> option_name, exc |-> r.exc, ctl |-> "continue"]
         IN  resolved(set_parsed_value(P, M, current_option, option_name, Some(arg)))
    ELSE IF Len(arg) > 1 /\ arg[1] = "-"
    THEN IF arg[2] = "-"
         THEN long_option(P, M, arg)
         ELSE short_option(P, M, arg, option_name)
    ELSE [parser |-> P, mem |-> M, current_option |-> current_option,
          option_name |-> option_name, exc |-> NoExc, ctl |-> "positional"]

\* what follows the option loop: a pending option has no value, then
\* verify_options
\* the statements after the option loop without the call of verify_options
after_scan_unverified(P, current_option, option_name) ==
    IF current_option # nullptr THEN missing_value(option_name)
    ELSE NoExc

\* the statements after the option loop with the two checks exchanged
after_scan_verifies_first(P, current_option, option_name) ==
    IF verify_options(P).type # "none" THEN verify_options(P)
    ELSE IF current_option # nullptr THEN missing_value(option_name)
    ELSE NoExc

after_scan(P, current_option, option_name) ==
    IF current_option # nullptr THEN missing_value(option_name)
    ELSE verify_options(P)

\* one iteration of the positional loop of parse: the exceptions of the
\* handlers are not caught here
positional_token_first_slot(P, M, pos, arg) ==
    IF 0 < Len(P.positional_arguments_)
    THEN handler_parse(P.positional_arguments_[1], M, arg)
    ELSE IF ~P.additional_arguments_.has_value
    THEN [mem |-> M, exc |-> logic_error]
    ELSE handler_parse(P.additional_arguments_.handler_, M, arg)

positional_token(P, M, pos, arg) ==
    IF pos < Len(P.positional_arguments_)
    THEN handler_parse(P.positional_arguments_[pos + 1], M, arg)
    ELSE IF ~P.additional_arguments_.has_value
    THEN [mem |-> M, exc |-> logic_error]
    ELSE handler_parse(P.additional_arguments_.handler_, M, arg)

(***************************************************************************)
(* The host program: declarations, destinations and token vectors          *)
(***************************************************************************)
\* parser.option(...).int_val(name, dest) and the like: the value_config
\* returned by option() is the one of options_.back()
opt_val(P, kind, name, dest) ==
    LET k == Len(P.options_) IN
    [P EXCEPT !.options_[k].handler_ = custom_val(@, kind, FALSE, name, dest).handler]
opt_default(P, value) ==
    LET k == Len(P.options_) IN
    [P EXCEPT !.options_[k].handler_ = with_default(@, value)]
\* parser.argument().int_val(name, dest) and the like
arg_val(P, kind, name, dest) ==
    LET k == Len(P.positional_arguments_) IN
    [P EXCEPT !.positional_arguments_[k] = custom_val(@, kind, FALSE, name, dest).handler]
arg_default(P, value) ==
    LET k == Len(P.positional_arguments_) IN
    [P EXCEPT !.positional_arguments_[k] = with_default(@, value)]
\* parser.argument_list().string_val(name, dest) and the like
list_val(P, kind, name, dest) ==
    [P EXCEPT !.additional_arguments_.handler_ = custom_val(@, kind, TRUE, name, dest).handler]

\* flag -a; -o/--oo with an int value defaulting to 2 and -m/--mm with a
\* string value, both with an observation flag; one int positional "arg"
ParserFlags ==
    LET p1 == option(new_parser, << <<"a">> >>, "a_flag").parser
        p2 == option(p1, << <<"o">>, <<"o", "o">> >>, "o_flag").parser
        p3 == opt_default(opt_val(p2, "int", <<"v", "a", "l">>, "o_val"), IntV(2))
        p4 == option(p3, << <<"m">>, <<"m", "m">> >>, "m_flag").parser
        p5 == opt_val(p4, "string", <<"v", "a", "l">>, "m_val")
        p6 == argument(p5).parser
    IN  arg_val(p6, "int", <<"a", "r", "g">>, "p_val")

\* mandatory option -o/--oo with an int value defaulting to 2, flag -a, one
\* int positional "arg" defaulting to 1 and a list of strings
ParserMandatory ==
    LET p1 == option(new_parser, << <<"o">>, <<"o", "o">> >>, "").parser
        p2 == opt_default(opt_val(p1, "int", <<"v", "a", "l">>, "o_val"), IntV(2))
        p3 == option(p2, << <<"a">> >>, "a_flag").parser
        p4 == argument(p3).parser
        p5 == arg_default(arg_val(p4, "int", <<"a", "r", "g">>, "p_val"), IntV(1))
        p6 == argument_list(p5).parser
    IN  list_val(p6, "string", <<"a", "r", "g", "s">>, "l_val")

\* the declarations a parse is run against
Parsers == {new_parser, ParserFlags, ParserMandatory}

\* the caller's cells: the observation cells of the options, the string
\* destinations, and the destinations before the first parse
FlagCells == {"a_flag", "b_flag", "c_flag", "d_flag", "o_flag", "m_flag"}
StringCells == {"m_val", "c_val", "d_val", "p1_val", "p2_val"}
InitialMem ==
    [c \in FlagCells \cup StringCells \cup {"o_val", "p_val", "l_val"} |->
        CASE c \in FlagCells -> BoolV(FALSE)
          [] c \in {"o_val", "p_val"} -> IntV(0)
          [] c \in StringCells -> StrV(EmptyStr)
          [] c = "l_val" -> ListV(<< >>)]

\* argv[0]
ProgramName == <<"c", "m", "d">>

\* the tokens argv[1..] is made of
Tokens ==
    { <<"-", "a">>, <<"-", "a", "o", "1">>, <<"-", "o">>, <<"-", "o", "1">>,
      <<"-", "m">>, <<"-", "m", "1">>, <<"-", "-">>, <<"-", "-", "o", "o", "=", "1">>,
      <<"-", "-", "o", "o", "=", "x">>, <<"-", "-", "m", "m">>,
      <<"-", "-", "z", "z", "=", "1">>, <<"-", "f">>, <<"1">>, <<"x">> }

TokenVectors(n) == UNION {[1..k -> Tokens] : k \in 0..n}

(***************************************************************************)
(* State                                                                   *)
(***************************************************************************)
VARIABLES
    parser,          \* the argpar::parser object: registry and found flags
    mem,             \* the caller's destination cells
    pc,              \* where parse() is: "idle" (not running), "scan",
                     \* "verify", "positional"
    args,            \* parse: args (argv copied)
    i,               \* parse: index of the current token
    current_option,  \* parse: option still awaiting its value
    option_name,     \* parse: name of the option as written
    pos,             \* parse: number of positional tokens consumed
    outcome,         \* how the last parse() ended: "returned" or the exception
    calls,           \* number of parse() calls made
    used,            \* number of tokens handed to parse() so far
    call             \* the call the host made last on a value configuration
                     \* (int_val, string_val, between, from), with its
                     \* arguments

vars == <<parser, mem, pc, args, i, current_option, option_name, pos, outcome, calls, used,
          call>>

\* no call was made on a value configuration yet
NoCall ==
    [op |-> "none", slot |-> "", name |-> EmptyStr, dest |-> "",
     min |-> 0, max |-> 0, values |-> << >>]

Init ==
    /\ parser \in Parsers
    /\ mem = InitialMem
    /\ pc = "idle"
    /\ args = << >>
    /\ i = 0
    /\ current_option = nullptr
    /\ option_name = EmptyStr
    /\ pos = 0
    /\ outcome = NoExc
    /\ calls = 0
    /\ used = 0
    /\ call = NoCall

\* parse without the checks of argc and argv: the call goes on with no
\* token, through verify_options, and returns or raises what that raises
ParseInvalid_unchecked ==
    /\ pc = "idle"
    /\ calls < MaxParses
    /\ outcome' = NoExc
    /\ calls' = calls + 1
    /\ args' = << >>
    /\ i' = 1
    /\ current_option' = nullptr
    /\ option_name' = EmptyStr
    /\ pos' = 0
    /\ pc' = "scan"
    /\ UNCHANGED <<parser, mem, used, call>>

\* parser::parse(argc, argv) with argc < 1 or argv == nullptr
ParseInvalid ==
    /\ pc = "idle"
    /\ calls < MaxParses
    /\ outcome' = invalid_argument
    /\ calls' = calls + 1
    /\ args' = << >>
    /\ i' = 0
    /\ current_option' = nullptr
    /\ option_name' = EmptyStr
    /\ pos' = 0
    /\ UNCHANGED <<parser, mem, pc, used, call>>

\* parser::parse(argc, argv) up to the option loop: the locals are set up
ParseCall ==
    /\ pc = "idle"
    /\ calls < MaxParses
    /\ \E tokens \in TokenVectors(MaxTokens - used) :
          /\ args' = <<ProgramName>> \o tokens
          /\ used' = used + Len(tokens)
    /\ i' = 1
    /\ current_option' = nullptr
    /\ option_name' = EmptyStr
    /\ pos' = 0
    /\ outcome' = NoExc
    /\ calls' = calls + 1
    /\ pc' = "scan"
    /\ UNCHANGED <<parser, mem, call>>

\* the token, looked at as the start of an option, resolves to a pointer
\* whose option was destroyed: its name (long) or one of its letters, reached
\* over letters of options without a value (short), is an alias that a
\* rejected option() call left registered
ReachesDangling(P, arg) ==
    /\ Len(arg) > 1
    /\ arg[1] = "-"
    /\ arg # <<"-", "-">>
    /\ IF arg[2] = "-"
       THEN \E e \in P.long_to_option_ :
                e[1] = substr(arg, 2, find(arg, "=") - 2) /\ ~Live(P, e[2])
       ELSE \E k \in 2..Len(arg) :
                /\ \E e \in P.short_to_option_ : e[1] = arg[k] /\ ~Live(P, e[2])
                /\ \A j \in 2..(k - 1) :
                       \E e \in P.short_to_option_ :
                           /\ e[1] = arg[j]
                           /\ Live(P, e[2])
                           /\ arg_type(Deref(P, e[2])) = "no_arg"

\* the value slot the positional loop hands the token at position pos to
positional_slot(P, p) ==
    IF p < Len(P.positional_arguments_)
    THEN P.positional_arguments_[p + 1]
    ELSE P.additional_arguments_.handler_

\* the positional loop is about to call parse through a null handler_
NullHandler(P, p) ==
    /\ p < Len(P.positional_arguments_) \/ P.additional_arguments_.has_value
    /\ positional_slot(P, p).kind = "none"

\* one iteration of the option loop
\* an iteration of the option loop that does not increment i
ScanStep_stalls ==
    /\ pc = "scan"
    /\ i < Len(args)
    /\ current_option # nullptr \/ ~ReachesDangling(parser, args[i + 1])
    /\ \E r \in {scan_token(parser, mem, current_option, option_name, args[i + 1])} :
       /\ parser' = r.parser
       /\ mem' = r.mem
       /\ current_option' = r.current_option
       /\ option_name' = r.option_name
       /\ IF r.exc.type # "none"
          THEN /\ outcome' = r.exc
               /\ pc' = "idle"
               /\ i' = i
          ELSE /\ outcome' = outcome
               /\ pc' = IF r.ctl = "continue" THEN "scan" ELSE "verify"
               /\ i' = IF r.ctl = "separator" THEN i + 1 ELSE i
    /\ UNCHANGED <<args, pos, calls, used, call>>

ScanStep ==
    /\ pc = "scan"
    /\ i < Len(args)
    /\ current_option # nullptr \/ ~ReachesDangling(parser, args[i + 1])
    /\ \E r \in {scan_token(parser, mem, current_option, option_name, args[i + 1])} :
       /\ parser' = r.parser
       /\ mem' = r.mem
       /\ current_option' = r.current_option
       /\ option_name' = r.option_name
       /\ IF r.exc.type # "none"
          THEN /\ outcome' = r.exc
               /\ pc' = "idle"
               /\ i' = i
          ELSE /\ outcome' = outcome
               /\ pc' = IF r.ctl = "continue" THEN "scan" ELSE "verify"
               /\ i' = IF r.ctl = "positional" THEN i ELSE i + 1
    /\ UNCHANGED <<args, pos, calls, used, call>>

\* the option loop ends because the tokens are exhausted
ScanExit ==
    /\ pc = "scan"
    /\ i >= Len(args)
    /\ pc' = "verify"
    /\ UNCHANGED <<parser, mem, args, i, current_option, option_name, pos, outcome, calls, used, call>>

\* between the loops: missing value of the pending option, verify_options
Verify ==
    /\ pc = "verify"
    /\ \E e \in {after_scan(parser, current_option, option_name)} :
       IF e.type # "none"
       THEN /\ outcome' = e
            /\ pc' = "idle"
       ELSE /\ outcome' = outcome
            /\ pc' = "positional"
    /\ pos' = 0
    /\ UNCHANGED <<parser, mem, args, i, current_option, option_name, calls, used, call>>

\* one iteration of the positional loop
PositionalStep ==
    /\ pc = "positional"
    /\ i < Len(args)
    /\ ~NullHandler(parser, pos)
    /\ \E r \in {positional_token(parser, mem, pos, args[i + 1])} :
       /\ mem' = r.mem
       /\ IF r.exc.type # "none"
          THEN /\ outcome' = r.exc
               /\ pc' = "idle"
               /\ i' = i
               /\ pos' = pos
          ELSE /\ outcome' = outcome
               /\ pc' = pc
               /\ i' = i + 1
               /\ pos' = pos + 1
    /\ UNCHANGED <<parser, args, current_option, option_name, calls, used, call>>

\* the positional loop ends: parse returns
ParseReturn ==
    /\ pc = "positional"
    /\ i >= Len(args)
    /\ outcome' = Exc("returned")
    /\ pc' = "idle"
    /\ UNCHANGED <<parser, mem, args, i, current_option, option_name, pos, calls, used, call>>

Next ==
    \/ ParseInvalid
    \/ ParseCall
    \/ ScanStep
    \/ ScanExit
    \/ Verify
    \/ PositionalStep
    \/ ParseReturn

Spec == Init /\ [][Next]_vars

(***************************************************************************)
(* The declaring host: the calls that build the registry, followed by one  *)
(* parse                                                                   *)
(***************************************************************************)
\* number of option() calls and of argument() calls the host makes
MaxOptionCalls == 2
MaxArguments == 2
\* longest token vector of the parse that follows the declarations
MaxHostTokens == 2

\* the alias lists handed to option()
AliasLists ==
    { << >>, << EmptyStr >>, << <<"a">> >>, << <<"o">>, <<"o", "o">> >>,
      << <<"a">>, <<"b">> >>, << <<"z">>, <<"z">>, <<"z">> >> }

\* the destination handed to option() with an alias list: "" is the overload
\* without opt_dest
FlagDests(aliases) ==
    IF aliases \in {<< <<"a">> >>, << <<"o">>, <<"o", "o">> >>, << <<"a">>, <<"b">> >>}
    THEN {"", "a_flag"}
    ELSE {""}

\* the display names handed to int_val / string_val
ValueNames == {EmptyStr, <<"v", "a", "l">>}

\* the tokens of the parse that follows the declarations
HostTokens ==
    { <<"-", "o">>, <<"-", "a", "z">>, <<"-", "-", "o", "o", "=", "x">>,
      <<"-", "-">>, <<"x">> }

HostTokenVectors == UNION {[1..k -> HostTokens] : k \in 0..MaxHostTokens}

\* a declaring call is made before parse, not while it runs
Declaring == pc = "idle" /\ calls = 0

\* how a declaring call ended
declared(exc) == IF exc.type # "none" THEN exc ELSE Exc("returned")

\* parser.option(aliases, hint) / parser.option(aliases, hint, &flag)
DeclareOption ==
    /\ Declaring
    /\ parser.next_id <= MaxOptionCalls
    /\ \E aliases \in AliasLists :
          \E flag_dest \in FlagDests(aliases) :
              \E r \in {option(parser, aliases, flag_dest)} :
                  /\ parser' = r.parser
                  /\ outcome' = declared(r.exc)
    /\ UNCHANGED <<mem, pc, args, i, current_option, option_name, pos, calls, used, call>>

\* parser.argument()
DeclareArgument ==
    /\ Declaring
    /\ Len(parser.positional_arguments_) < MaxArguments
    /\ \E r \in {argument(parser)} :
          /\ parser' = r.parser
          /\ outcome' = declared(r.exc)
    /\ UNCHANGED <<mem, pc, args, i, current_option, option_name, pos, calls, used, call>>

\* parser.argument_list()
DeclareArgumentList ==
    /\ Declaring
    /\ \E r \in {argument_list(parser)} :
          /\ parser' = r.parser
          /\ outcome' = declared(r.exc)
    /\ UNCHANGED <<mem, pc, args, i, current_option, option_name, pos, calls, used, call>>

\* the statement cfg.int_val(name, dest) or cfg.string_val(name, dest),
\* followed by .with_default(value) when defaulted: the handler the slot
\* holds afterwards, and the exception of the statement
configure(h, kind, multi, name, dest, defaulted) ==
    LET chained(r) ==
            IF r.exc.type # "none" \/ ~defaulted THEN r
            ELSE [handler |-> with_default(r.handler,
                                  IF kind = "int" THEN IntV(2) ELSE StrV(<<"d">>)),
                  exc |-> NoExc]
    IN  chained(custom_val(h, kind, multi, name, dest))

\* the destination of the kind handed to a value slot of an option; "" is a
\* null pointer
OptionDests(kind) == IF kind = "int" THEN {"", "o_val"} ELSE {"", "m_val"}

\* int_val / string_val on the value_config that the last option() returned
OptionVal ==
    /\ Declaring
    /\ Len(parser.options_) > 0
    /\ \E kind \in {"int", "string"}, name \in ValueNames, defaulted \in BOOLEAN :
          \E dest \in OptionDests(kind) :
              \E r \in {configure(parser.options_[Len(parser.options_)].handler_,
                                  kind, FALSE, name, dest, defaulted)} :
                  /\ parser' = [parser EXCEPT
                                   !.options_[Len(parser.options_)].handler_ = r.handler]
                  /\ outcome' = declared(r.exc)
    /\ UNCHANGED <<mem, pc, args, i, current_option, option_name, pos, calls, used, call>>

\* int_val on the value_config that the last argument() returned
ArgumentVal ==
    /\ Declaring
    /\ Len(parser.positional_arguments_) > 0
    /\ \E name \in ValueNames, dest \in {"", "p_val"}, defaulted \in BOOLEAN :
          \E r \in {configure(parser.positional_arguments_[Len(parser.positional_arguments_)],
                              "int", FALSE, name, dest, defaulted)} :
              /\ parser' = [parser EXCEPT
                               !.positional_arguments_[Len(parser.positional_arguments_)] =
                                   r.handler]
              /\ outcome' = declared(r.exc)
    /\ UNCHANGED <<mem, pc, args, i, current_option, option_name, pos, calls, used, call>>

\* string_val on the value_list_config that argument_list() returned
ListVal ==
    /\ Declaring
    /\ parser.additional_arguments_.has_value
    /\ \E name \in ValueNames, dest \in {"", "l_val"} :
          \E r \in {configure(parser.additional_arguments_.handler_,
                              "string", TRUE, name, dest, FALSE)} :
              /\ parser' = [parser EXCEPT !.additional_arguments_.handler_ = r.handler]
              /\ outcome' = declared(r.exc)
    /\ UNCHANGED <<mem, pc, args, i, current_option, option_name, pos, calls, used, call>>

\* parser::parse(argc, argv) of the host, up to the option loop
HostParse ==
    /\ Declaring
    /\ \E tokens \in HostTokenVectors :
          /\ args' = <<ProgramName>> \o tokens
          /\ used' = used + Len(tokens)
    /\ i' = 1
    /\ current_option' = nullptr
    /\ option_name' = EmptyStr
    /\ pos' = 0
    /\ outcome' = NoExc
    /\ calls' = calls + 1
    /\ pc' = "scan"
    /\ UNCHANGED <<parser, mem, call>>

\* the parser in which the destroyed options are still where they were, and
\* the way back: the first n options are the ones options_ owns
Revived(P) == [P EXCEPT !.options_ = @ \o P.freed_, !.freed_ = << >>]
Buried(P, n) ==
    [P EXCEPT !.options_ = SubSeq(@, 1, n),
              !.freed_ = SubSeq(P.options_, n + 1, Len(P.options_))]

\* one iteration of the option loop on a token that resolves to a destroyed
\* option: the behaviour is undefined.  The process ends abnormally, or the
\* memory of the destroyed option still holds the option and the iteration
\* goes on with it.
ScanDangling ==
    /\ pc = "scan"
    /\ i < Len(args)
    /\ current_option = nullptr
    /\ ReachesDangling(parser, args[i + 1])
    /\ \/ /\ pc' = "crashed"
          /\ outcome' = Exc("crash")
          /\ UNCHANGED <<parser, mem, i, current_option, option_name>>
       \/ \E r \in {scan_token(Revived(parser), mem, current_option, option_name,
                               args[i + 1])} :
             /\ parser' = Buried(r.parser, Len(parser.options_))
             /\ mem' = r.mem
             /\ current_option' = r.current_option
             /\ option_name' = r.option_name
             /\ IF r.exc.type # "none"
                THEN /\ outcome' = r.exc
                     /\ pc' = "idle"
                     /\ i' = i
                ELSE /\ outcome' = outcome
                     /\ pc' = IF r.ctl = "continue" THEN "scan" ELSE "verify"
                     /\ i' = IF r.ctl = "positional" THEN i ELSE i + 1
    /\ UNCHANGED <<args, pos, calls, used, call>>

\* one iteration of the positional loop on a slot without a value handler:
\* handler_->parse(arg) is a call through a null pointer, the behaviour is
\* undefined.  The process ends abnormally, or the call has no effect and
\* the loop goes on.
PositionalNull ==
    /\ pc = "positional"
    /\ i < Len(args)
    /\ NullHandler(parser, pos)
    /\ \/ /\ pc' = "crashed"
          /\ outcome' = Exc("crash")
          /\ UNCHANGED <<i, pos>>
       \/ /\ pc' = pc
          /\ outcome' = outcome
          /\ i' = i + 1
          /\ pos' = pos + 1
    /\ UNCHANGED <<parser, mem, args, current_option, option_name, calls, used, call>>

HostInit ==
    /\ parser = new_parser
    /\ mem = InitialMem
    /\ pc = "idle"
    /\ args = << >>
    /\ i = 0
    /\ current_option = nullptr
    /\ option_name = EmptyStr
    /\ pos = 0
    /\ outcome = NoExc
    /\ calls = 0
    /\ used = 0
    /\ call = NoCall

HostNext ==
    \/ DeclareOption
    \/ DeclareArgument
    \/ DeclareArgumentList
    \/ OptionVal
    \/ ArgumentVal
    \/ ListVal
    \/ HostParse
    \/ ScanStep
    \/ ScanDangling
    \/ ScanExit
    \/ Verify
    \/ PositionalStep
    \/ PositionalNull
    \/ ParseReturn

HostSpec == HostInit /\ [][HostNext]_vars

(***************************************************************************)
(* The configuring host: one option and one positional are declared, the   *)
(* host configures their values (int_val, string_val, between, from) and   *)
(* then parses once                                                        *)
(***************************************************************************)
\* auto & cfg = parser.option({"o", "oo"}, "", &o_flag);
\* auto & arg = parser.argument();
SlotParser ==
    argument(option(new_parser, << <<"o">>, <<"o", "o">> >>, "o_flag").parser).parser

\* the two value configurations the host holds
SlotNames == {"option", "positional"}
slot_handler(P, slot) ==
    IF slot = "option" THEN P.options_[1].handler_ ELSE P.positional_arguments_[1]
with_slot(P, slot, h) ==
    IF slot = "option"
    THEN [P EXCEPT !.options_[1].handler_ = h]
    ELSE [P EXCEPT !.positional_arguments_[1] = h]

\* the destinations handed to int_val / string_val of a slot; "" is a null
\* pointer
SlotDests(slot, kind) ==
    IF slot = "option" THEN OptionDests(kind)
    ELSE IF kind = "int" THEN {"p_val"} ELSE {"m_val"}

\* the bounds handed to between, the lists handed to from, the value texts
\* of the tokens
BoundValues == {1, 2, 3}
FromLists == { << >>, << <<"a">> >>, << <<"a">>, <<"c">> >> }
ValueTexts == { <<"0">>, <<"1">>, <<"2">>, <<"3">>, <<"1", "8">>, <<"a">>, <<"c", "c">> }

\* the token vectors of the parse: -o text, --oo=text, text alone (a
\* positional) and no token
SlotTokenVectors ==
    { << >> }
        \cup { << <<"-", "o">>, v >> : v \in ValueTexts }
        \cup { << <<"-", "-", "o", "o", "=">> \o v >> : v \in ValueTexts }
        \cup { << v >> : v \in ValueTexts }

\* cfg.int_val(name, dest) / cfg.string_val(name, dest)
ConfigVal ==
    /\ Declaring
    /\ \E slot \in SlotNames, kind \in {"int", "string"}, name \in ValueNames :
          \E dest \in SlotDests(slot, kind) :
              \E r \in {custom_val(slot_handler(parser, slot), kind, FALSE, name, dest)} :
                  /\ parser' = with_slot(parser, slot, r.handler)
                  /\ outcome' = declared(r.exc)
                  /\ call' = [NoCall EXCEPT !.op = kind, !.slot = slot,
                                            !.name = name, !.dest = dest]
    /\ UNCHANGED <<mem, pc, args, i, current_option, option_name, pos, calls, used>>

\* int_cfg::between(min, max) on the int_cfg that int_val returned
ConfigBetween ==
    /\ Declaring
    /\ \E slot \in SlotNames, min \in BoundValues, max \in BoundValues :
          /\ slot_handler(parser, slot).kind = "int"
          /\ \E r \in {between(slot_handler(parser, slot), min, max)} :
                /\ parser' = with_slot(parser, slot, r.handler)
                /\ outcome' = declared(r.exc)
                /\ call' = [NoCall EXCEPT !.op = "between", !.slot = slot,
                                          !.min = min, !.max = max]
    /\ UNCHANGED <<mem, pc, args, i, current_option, option_name, pos, calls, used>>

\* string_cfg::from(values) on the string_cfg that string_val returned
ConfigFrom ==
    /\ Declaring
    /\ \E slot \in SlotNames, values \in FromLists :
          /\ slot_handler(parser, slot).kind = "string"
          /\ \E r \in {from(slot_handler(parser, slot), values)} :
                /\ parser' = with_slot(parser, slot, r.handler)
                /\ outcome' = declared(r.exc)
                /\ call' = [NoCall EXCEPT !.op = "from", !.slot = slot,
                                          !.values = values]
    /\ UNCHANGED <<mem, pc, args, i, current_option, option_name, pos, calls, used>>

\* parser::parse(argc, argv) of the configuring host, up to the option loop
SlotParse ==
    /\ Declaring
    /\ \E tokens \in SlotTokenVectors :
          /\ args' = <<ProgramName>> \o tokens
          /\ used' = used + Len(tokens)
    /\ i' = 1
    /\ current_option' = nullptr
    /\ option_name' = EmptyStr
    /\ pos' = 0
    /\ outcome' = NoExc
    /\ calls' = calls + 1
    /\ pc' = "scan"
    /\ UNCHANGED <<parser, mem, call>>

SlotInit ==
    /\ parser = SlotParser
    /\ mem = InitialMem
    /\ pc = "idle"
    /\ args = << >>
    /\ i = 0
    /\ current_option = nullptr
    /\ option_name = EmptyStr
    /\ pos = 0
    /\ outcome = NoExc
    /\ calls = 0
    /\ used = 0
    /\ call = NoCall

SlotNext ==
    \/ ConfigVal
    \/ ConfigBetween
    \/ ConfigFrom
    \/ SlotParse
    \/ ScanStep
    \/ ScanExit
    \/ Verify
    \/ PositionalStep
    \/ PositionalNull
    \/ ParseReturn

SlotSpec == SlotInit /\ [][SlotNext]_vars

(***************************************************************************)
(* The host of string values: flags, options with a string value, two      *)
(* string positionals and a list of strings are declared, then one parse   *)
(***************************************************************************)
\* longest token vector of that parse
MaxTextTokens == 3

\* flag -a, flag -b/--bb, -c/--cc with a string value, -d/--dd with a string
\* value defaulting to "d", all with an observation cell; the positionals
\* p1 and p2 and the list args, of strings
ParserStrings ==
    LET p1 == option(new_parser, << <<"a">> >>, "a_flag").parser
        p2 == option(p1, << <<"b">>, <<"b", "b">> >>, "b_flag").parser
        p3 == option(p2, << <<"c">>, <<"c", "c">> >>, "c_flag").parser
        p4 == opt_val(p3, "string", <<"v", "a", "l">>, "c_val")
        p5 == option(p4, << <<"d">>, <<"d", "d">> >>, "d_flag").parser
        p6 == opt_default(opt_val(p5, "string", <<"v", "a", "l">>, "d_val"), StrV(<<"d">>))
        p7 == arg_val(argument(p6).parser, "string", <<"p", "1">>, "p1_val")
        p8 == arg_val(argument(p7).parser, "string", <<"p", "2">>, "p2_val")
    IN  list_val(argument_list(p8).parser, "string", <<"a", "r", "g", "s">>, "l_val")

\* the tokens of the parse
TextTokens ==
    { <<"-", "a">>, <<"-", "b">>, <<"-", "c">>, <<"-", "d">>,
      <<"-", "a", "b", "c">>, <<"-", "a", "b", "d">>,
      <<"-", "-", "b", "b">>, <<"-", "-", "c", "c">>, <<"-", "-", "d", "d">>,
      <<"-", "-", "c", "c", "=">>, <<"-", "-", "c", "c", "=", "x", "=", "y">>,
      <<"-", "-", "d", "d", "=", "x">>, <<"-", "-", "b", "b", "=", "x">>,
      <<"-", "-", "y", "y", "=", "x">>, <<"-", "-", "y", "y">>,
      <<"-", "-">>, <<"-">>, <<"x">>, <<"y">> }

TextTokenVectors == UNION {[1..k -> TextTokens] : k \in 0..MaxTextTokens}

\* parser::parse(argc, argv) of this host, up to the option loop
TextParse ==
    /\ Declaring
    /\ \E tokens \in TextTokenVectors :
          /\ args' = <<ProgramName>> \o tokens
          /\ used' = used + Len(tokens)
    /\ i' = 1
    /\ current_option' = nullptr
    /\ option_name' = EmptyStr
    /\ pos' = 0
    /\ outcome' = NoExc
    /\ calls' = calls + 1
    /\ pc' = "scan"
    /\ UNCHANGED <<parser, mem, call>>

TextInit ==
    /\ parser = ParserStrings
    /\ mem = InitialMem
    /\ pc = "idle"
    /\ args = << >>
    /\ i = 0
    /\ current_option = nullptr
    /\ option_name = EmptyStr
    /\ pos = 0
    /\ outcome = NoExc
    /\ calls = 0
    /\ used = 0
    /\ call = NoCall

TextNext ==
    \/ TextParse
    \/ ScanStep
    \/ ScanExit
    \/ Verify
    \/ PositionalStep
    \/ ParseReturn

TextSpec == TextInit /\ [][TextNext]_vars

\* parse runs to its end once it is called: the statements of a call are
\* executed one after the other by the calling thread.  The last conjunct is
\* WF_vars(ScanStep) with the enabling condition of ScanStep written out: an
\* iteration of the option loop is possible exactly when the loop is before
\* a token, and it always changes i or pc.
TextLive ==
    /\ TextSpec
    /\ WF_vars(ScanExit)
    /\ WF_vars(Verify)
    /\ WF_vars(PositionalStep)
    /\ WF_vars(ParseReturn)
    /\ ([]<>(~(pc = "scan" /\ i < Len(args))) \/ []<><<ScanStep>>_vars)

(***************************************************************************)
(* The host of restricted string values, parsing more than once            *)
(***************************************************************************)
MaxListTokens == 3
MaxListParses == 2

\* -c/--cc with a string value restricted by from({"x"}) and an observation
\* cell, a string positional, and a list of strings restricted by
\* from({"y"})
ParserLists ==
    LET p1 == option(new_parser, << <<"c">>, <<"c", "c">> >>, "c_flag").parser
        p2 == opt_val(p1, "string", <<"v", "a", "l">>, "c_val")
        p3 == [p2 EXCEPT !.options_[1].handler_ = from(@, << <<"x">> >>).handler]
        p4 == arg_val(argument(p3).parser, "string", <<"p", "1">>, "p1_val")
        p5 == list_val(argument_list(p4).parser, "string", <<"a", "r", "g", "s">>, "l_val")
    IN  [p5 EXCEPT !.additional_arguments_.handler_ = from(@, << <<"y">> >>).handler]

\* the tokens of the parses
ListTokens == { <<"-", "c">>, <<"-", "-">>, <<"x">>, <<"y">> }

ListTokenVectors == UNION {[1..k -> ListTokens] : k \in 0..MaxListTokens}

\* parser::parse(argc, argv) of this host, up to the option loop; the host
\* calls it again on the same parser and the same destinations
ListParse ==
    /\ pc = "idle"
    /\ calls < MaxListParses
    /\ \E tokens \in ListTokenVectors :
          /\ args' = <<ProgramName>> \o tokens
          /\ used' = used + Len(tokens)
    /\ i' = 1
    /\ current_option' = nullptr
    /\ option_name' = EmptyStr
    /\ pos' = 0
    /\ outcome' = NoExc
    /\ calls' = calls + 1
    /\ pc' = "scan"
    /\ UNCHANGED <<parser, mem, call>>

ListInit ==
    /\ parser = ParserLists
    /\ mem = InitialMem
    /\ pc = "idle"
    /\ args = << >>
    /\ i = 0
    /\ current_option = nullptr
    /\ option_name = EmptyStr
    /\ pos = 0
    /\ outcome = NoExc
    /\ calls = 0
    /\ used = 0
    /\ call = NoCall

ListNext ==
    \/ ListParse
    \/ ScanStep
    \/ ScanExit
    \/ Verify
    \/ PositionalStep
    \/ ParseReturn

ListSpec == ListInit /\ [][ListNext]_vars

(***************************************************************************)
(* Vocabulary of the properties                                            *)
(***************************************************************************)
Separator == <<"-", "-">>
IsLongToken(t) == Len(t) > 2 /\ t[1] = "-" /\ t[2] = "-"
IsShortToken(t) == Len(t) > 1 /\ t[1] = "-" /\ t[2] # "-"

\* position in options_ of the option declared with this alias, 0 if none
Declared(P, alias) ==
    IF \E k \in 1..Len(P.options_) :
           \E a \in 1..Len(P.options_[k].aliases_) : P.options_[k].aliases_[a] = alias
    THEN CHOOSE k \in 1..Len(P.options_) :
           \E a \in 1..Len(P.options_[k].aliases_) : P.options_[k].aliases_[a] = alias
    ELSE 0

\* the letters t[2..k-1] of a short token are all declared options without a
\* value, so that the letter at k is the next one to be looked at
FlagsBefore(P, t, k) ==
    \A j \in 2..(k - 1) :
        /\ Declared(P, <<t[j]>>) # 0
        /\ arg_type(P.options_[Declared(P, <<t[j]>>)]) = "no_arg"

\* the position in a short token of the letter of the option that takes a
\* value, 0 if the token reaches none
ValueLetter(P, t) ==
    IF \E k \in 2..Len(t) : /\ FlagsBefore(P, t, k)
                            /\ Declared(P, <<t[k]>>) # 0
                            /\ arg_type(P.options_[Declared(P, <<t[k]>>)]) # "no_arg"
    THEN CHOOSE k \in 2..Len(t) : /\ FlagsBefore(P, t, k)
                                  /\ Declared(P, <<t[k]>>) # 0
                                  /\ arg_type(P.options_[Declared(P, <<t[k]>>)]) # "no_arg"
    ELSE 0

\* the position in a short token of the first letter that is no declared
\* alias, 0 if the scan of the token reaches none
UnknownLetter(P, t) ==
    IF \E k \in 2..Len(t) : FlagsBefore(P, t, k) /\ Declared(P, <<t[k]>>) = 0
    THEN CHOOSE k \in 2..Len(t) : FlagsBefore(P, t, k) /\ Declared(P, <<t[k]>>) = 0
    ELSE 0

\* the name in a long token: the text between "--" and the first "="
LongName(t) ==
    IF \E k \in 3..Len(t) : t[k] = "="
    THEN SubSeq(t, 3, (CHOOSE k \in 3..Len(t) : t[k] = "=" /\ \A j \in 3..(k - 1) : t[j] # "=") - 1)
    ELSE SubSeq(t, 3, Len(t))
HasEquals(t) == \E k \in 3..Len(t) : t[k] = "="

\* the option loop is about to look at a token as the start of an option
AtOptionToken ==
    /\ pc = "scan"
    /\ i < Len(args)
    /\ current_option = nullptr
    /\ args[i + 1] # Separator

\* the option loop holds an option that awaits its value
Pending == pc = "scan" /\ current_option # nullptr

\* the parser was declared as D (the found flags aside)
DeclaredAs(D) ==
    [parser EXCEPT !.options_ = [k \in DOMAIN @ |-> [@[k] EXCEPT !.found_ = FALSE]]] = D

Returned == pc = "idle" /\ outcome.type = "returned"
Raised == pc = "idle" /\ outcome.type \notin {"none", "returned"}

\* the value slot h accepted token tok in this step: the destination holds
\* the coerced value
Stored(h, tok) ==
    /\ config_parse(h, tok).exc.type = "none"
    /\ mem'[h.dest] = config_parse(h, tok).val

(***************************************************************************)
(* Properties                                                              *)
(***************************************************************************)
\* the error BadValue(name, value) of the documentation: a bad_value whose
\* name() is name and whose value() is value
BadValue(name, value) == [type |-> "bad_value", name |-> name, value |-> value]

\* C1: when a short token reaches an option that takes a value and letters
\* follow that option's letter, the rest of the token is the option's
\* attached value: it is coerced into the destination and the option is
\* finished within the token (it does not wait for the next token); a rest
\* the coercer rejects is a bad_value of that option.
C1_AttachedShortValue ==
    [][ (/\ AtOptionToken
         /\ IsShortToken(args[i + 1])
         /\ ValueLetter(parser, args[i + 1]) # 0
         /\ ValueLetter(parser, args[i + 1]) < Len(args[i + 1]))
        => LET t == args[i + 1]
               k == ValueLetter(parser, t)
               h == parser.options_[Declared(parser, <<t[k]>>)].handler_
               v == SubSeq(t, k + 1, Len(t))
           IN  IF config_parse(h, v).exc.type = "none"
               THEN /\ Stored(h, v)
                    /\ current_option' = nullptr
                    /\ pc' = "scan"
                    /\ i' = i + 1
               ELSE /\ pc' = "idle"
                    /\ outcome' = BadValue(<<t[k]>>, v) ]_vars

\* a token of the vector names the option at position k of options_
Mentions(P, k, tokens) ==
    \E n \in 2..Len(tokens) :
        \/ /\ IsLongToken(tokens[n])
           /\ Declared(P, LongName(tokens[n])) = k
        \/ /\ IsShortToken(tokens[n])
           /\ \E j \in 2..Len(tokens[n]) : Declared(P, <<tokens[n][j]>>) = k

\* C2: after a successful parse, an option with a defaulted value that the
\* tokens do not mention has its destination at the default and is not
\* found.
C2_UnmentionedOptionHasDefault ==
    Returned =>
        \A k \in 1..Len(parser.options_) :
            (arg_type(parser.options_[k]) = "optional" /\ ~Mentions(parser, k, args))
            => /\ mem[parser.options_[k].handler_.dest] = parser.options_[k].handler_.default
               /\ ~parser.options_[k].found_

\* C3: after a successful parse, a positional with a default that no token
\* reached has its destination at the default.
C3_UnreachedPositionalHasDefault ==
    Returned =>
        \A k \in 1..Len(parser.positional_arguments_) :
            (k > pos /\ parser.positional_arguments_[k].has_default)
            => mem[parser.positional_arguments_[k].dest] = parser.positional_arguments_[k].default

\* the first positional without a default that the tokens did not reach, 0
\* if there is none
FirstUnfilled ==
    IF \E k \in (pos + 1)..Len(parser.positional_arguments_) :
           ~parser.positional_arguments_[k].has_default
    THEN CHOOSE k \in (pos + 1)..Len(parser.positional_arguments_) :
           /\ ~parser.positional_arguments_[k].has_default
           /\ \A j \in (pos + 1)..(k - 1) : parser.positional_arguments_[j].has_default
    ELSE 0

\* C4: when the tokens run out before a positional without a default is
\* reached, parse raises missing_value with the name of that positional.
C4_UnfilledPositionalRaises ==
    [][ (pc = "positional" /\ i >= Len(args) /\ FirstUnfilled # 0)
        => /\ pc' = "idle"
           /\ outcome' = missing_value(parser.positional_arguments_[FirstUnfilled].name) ]_vars

\* C5: a parse call starts with every found flag reset, so a mandatory option
\* that only an earlier call supplied is missing in this one.
C5_FoundResetAtCall ==
    [][ (pc = "idle" /\ pc' = "scan")
        => \A k \in 1..Len(parser'.options_) : ~parser'.options_[k].found_ ]_vars

\* C6: a token that names an alias that is not declared makes parse raise
\* bad_option with the alias as written: the name of a long token, the
\* letter of a short one.
C6_BadOptionNamesAlias ==
    [][ (AtOptionToken /\ (IsLongToken(args[i + 1]) \/ IsShortToken(args[i + 1])))
        => LET t == args[i + 1] IN
           /\ (IsLongToken(t) /\ Declared(parser, LongName(t)) = 0)
                  => (pc' = "idle" /\ outcome' = bad_option(LongName(t)))
           /\ (IsShortToken(t) /\ UnknownLetter(parser, t) # 0)
                  => (pc' = "idle" /\ outcome' = bad_option(<<t[UnknownLetter(parser, t)]>>)) ]_vars

\* C7: a positional token beyond the declared positionals, with no argument
\* list declared, makes parse raise an error of the argpar_exception family.
C7_TooManyIsArgparException ==
    [][ (/\ pc = "positional"
         /\ i < Len(args)
         /\ pos >= Len(parser.positional_arguments_)
         /\ ~parser.additional_arguments_.has_value)
        => (pc' = "idle" /\ outcome'.type \in argpar_exception) ]_vars

\* the value slot the positional loop hands the current token to
PositionalSlot ==
    IF pos < Len(parser.positional_arguments_)
    THEN parser.positional_arguments_[pos + 1]
    ELSE parser.additional_arguments_.handler_

\* C8: a parse of a token vector fails only with bad_option, bad_value,
\* missing_option, missing_value or the too-many-arguments error (the
\* logic_error of the positional loop), and a positional token its coercer
\* rejects is reported as bad_value with the positional's name and the token.
C8_ClosedErrorSet ==
    [][ (pc \in {"scan", "verify", "positional"} /\ pc' = "idle" /\ outcome'.type # "returned")
        => /\ outcome'.type \in parse_error \cup {"logic_error"}
           /\ outcome'.type = "logic_error"
                  => (/\ pc = "positional"
                      /\ pos >= Len(parser.positional_arguments_)
                      /\ ~parser.additional_arguments_.has_value)
           /\ (/\ pc = "positional"
               /\ PositionalSlot.kind # "none"
               /\ config_parse(PositionalSlot, args[i + 1]).exc.type # "none")
                  => outcome' = BadValue(PositionalSlot.name, args[i + 1]) ]_vars

\* the token names, without attaching a value to it, a declared option whose
\* arg_type is ty: a long token without "=", or a short token whose last
\* letter is the option's (after letters of options without a value)
NamesWithoutValue(P, t, ty) ==
    \/ /\ IsLongToken(t)
       /\ ~HasEquals(t)
       /\ Declared(P, LongName(t)) # 0
       /\ arg_type(P.options_[Declared(P, LongName(t))]) = ty
    \/ /\ IsShortToken(t)
       /\ ValueLetter(P, t) = Len(t)
       /\ arg_type(P.options_[Declared(P, <<t[Len(t)]>>)]) = ty
\* the name of that option as the token writes it, and the option
WrittenName(t) == IF IsLongToken(t) THEN LongName(t) ELSE <<t[Len(t)]>>
Named(P, t) == P.options_[Declared(P, WrittenName(t))]

\* a pending option whose token (the one before the current one) named it
\* without a value
PendingWithoutValue ==
    /\ Pending
    /\ NamesWithoutValue(parser, args[i], "mandatory")
    /\ current_option = Named(parser, args[i]).id

\* the pending option takes the current token as its value: the coerced
\* token is stored and the option is finished, or the token is rejected as a
\* bad_value of the option
ConsumesToken ==
    LET h == Deref(parser, current_option).handler_
        tok == args[i + 1]
    IN  IF config_parse(h, tok).exc.type = "none"
        THEN /\ Stored(h, tok)
             /\ current_option' = nullptr
             /\ pc' = "scan"
             /\ i' = i + 1
             /\ outcome' = outcome
        ELSE /\ pc' = "idle"
             /\ outcome'.type = "bad_value"
             /\ outcome'.name = WrittenName(args[i])

\* the option loop ends with the option still pending
LeavesPending ==
    /\ pc' = "verify"
    /\ current_option' = current_option
    /\ option_name' = option_name
    /\ mem' = mem

\* a token that names an option with a mandatory value, without a value,
\* leaves that option found and pending under the name as written
BecomesPending ==
    (AtOptionToken /\ NamesWithoutValue(parser, args[i + 1], "mandatory"))
    => /\ pc' = "scan"
       /\ i' = i + 1
       /\ current_option' = Named(parser, args[i + 1]).id
       /\ option_name' = WrittenName(args[i + 1])
       /\ Deref(parser', current_option').found_

\* a pending option at the end of the option loop is a missing_value
PendingRaises ==
    (pc = "verify" /\ current_option # nullptr)
    => (pc' = "idle" /\ outcome' = missing_value(option_name))

C10_DefaultedOptionTakesDefault ==
    [][ /\ (AtOptionToken /\ NamesWithoutValue(parser, args[i + 1], "optional"))
            => LET opt == Named(parser, args[i + 1]) IN
               /\ mem'[opt.handler_.dest] = opt.handler_.default
               /\ current_option' = nullptr
               /\ pc' = "scan"
               /\ i' = i + 1
               /\ outcome' = outcome
               /\ Deref(parser', opt.id).found_
        /\ (/\ pc # "idle"
            /\ pc' = "idle"
            /\ calls = 1
            /\ DeclaredAs(ParserFlags)
            /\ args = <<ProgramName, <<"-", "o">>, <<"1">> >>)
            => (/\ outcome'.type = "returned"
                /\ mem'["o_val"] = IntV(2)
                /\ mem'["p_val"] = IntV(1)) ]_vars

\* the value a long token attaches: the text after the first "="
AttachedValue(t) ==
    SubSeq(t, (CHOOSE k \in 3..Len(t) : t[k] = "=" /\ \A j \in 3..(k - 1) : t[j] # "=") + 1,
           Len(t))

\* the token attaches a value to a declared option that has a value slot
AttachesValue(P, t) ==
    /\ IsLongToken(t)
    /\ HasEquals(t)
    /\ Declared(P, LongName(t)) # 0
    /\ arg_type(P.options_[Declared(P, LongName(t))]) # "no_arg"

\* C11: when the coercer of an option's value slot rejects the token it is
\* handed (the value attached to a long token, or the token that follows an
\* option awaiting its value), parse raises bad_value whose name is the
\* option's alias as written and whose value is the rejected token.
C11_RejectedValueIsBadValue ==
    [][ /\ (/\ AtOptionToken
            /\ AttachesValue(parser, args[i + 1])
            /\ config_parse(Named(parser, args[i + 1]).handler_,
                            AttachedValue(args[i + 1])).exc.type # "none")
           => /\ pc' = "idle"
              /\ outcome' = BadValue(LongName(args[i + 1]), AttachedValue(args[i + 1]))
        /\ (/\ PendingWithoutValue
            /\ i < Len(args)
            /\ args[i + 1] # Separator
            /\ config_parse(Deref(parser, current_option).handler_,
                            args[i + 1]).exc.type # "none")
           => /\ pc' = "idle"
              /\ outcome' = BadValue(WrittenName(args[i]), args[i + 1]) ]_vars

\* C12: a long token that attaches a value (the text after "=", the empty
\* text included) to a declared option without a value slot makes parse raise
\* bad_value with the option's name and the attached value.
C12_ValueToFlagIsBadValue ==
    [][ (/\ AtOptionToken
         /\ IsLongToken(args[i + 1])
         /\ HasEquals(args[i + 1])
         /\ Declared(parser, LongName(args[i + 1])) # 0
         /\ arg_type(Named(parser, args[i + 1])) = "no_arg")
        => /\ pc' = "idle"
           /\ outcome' = BadValue(LongName(args[i + 1]), AttachedValue(args[i + 1])) ]_vars

\* the option at position k of options_ was declared without an observation
\* destination and was not found
MissingAt(k) == parser.options_[k].flag_dest_ = "" /\ ~parser.options_[k].found_

C14_NoOptionAfterSeparator ==
    [][ /\ (pc = "scan" /\ i < Len(args) /\ args[i + 1] = Separator)
           => /\ pc' = "verify"
              /\ i' = i + 1
              /\ parser' = parser
              /\ mem' = mem
        /\ (pc \in {"verify", "positional"})
           => /\ pc' # "scan"
              /\ parser' = parser
              /\ \A c \in FlagCells : mem'[c] = mem[c]
        /\ (/\ pc = "positional"
            /\ i < Len(args)
            /\ ~NullHandler(parser, pos)
            /\ pos >= Len(parser.positional_arguments_)
            /\ parser.additional_arguments_.has_value)
           => /\ pc' = "positional"
              /\ i' = i + 1
              /\ mem'["l_val"] = ListV(Append(mem["l_val"].l, StrV(args[i + 1]))) ]_vars

\* with the flag a and a list of strings, the tokens -- -az were parsed: the
\* list holds the text -az and a was not observed
C14_Witness ==
    /\ Returned
    /\ args = <<ProgramName, <<"-", "-">>, <<"-", "a", "z">> >>
    /\ Declared(parser, <<"a">>) # 0
    /\ parser.options_[Declared(parser, <<"a">>)].flag_dest_ = "a_flag"
    /\ mem["l_val"] = ListV(<< StrV(<<"-", "a", "z">>) >>)
    /\ ~mem["a_flag"].b
    /\ ~parser.options_[Declared(parser, <<"a">>)].found_

\* the set of the aliases in a list
AliasSet(aliases) == {aliases[n] : n \in 1..Len(aliases)}

\* the step is a call of option(): an option was allocated
OptionCall == parser'.next_id = parser.next_id + 1

\* the call of option() was accepted: options_ got the option
Accepted == Len(parser'.options_) = Len(parser.options_) + 1

\* the alias list the call of option() was handed
PassedAliases ==
    IF Accepted
    THEN parser'.options_[Len(parser'.options_)].aliases_
    ELSE parser'.freed_[Len(parser'.freed_)].aliases_

\* no alias is an alias of two declared options, and the alias maps hold at
\* most one pointer for an alias
UniqueAliases ==
    /\ \A k1, k2 \in 1..Len(parser.options_) :
           k1 # k2 => AliasSet(parser.options_[k1].aliases_)
                          \cap AliasSet(parser.options_[k2].aliases_) = {}
    /\ \A e1, e2 \in parser.long_to_option_ : e1[1] = e2[1] => e1 = e2
    /\ \A e1, e2 \in parser.short_to_option_ : e1[1] = e2[1] => e1 = e2

\* C15: no alias belongs to two declared options; a call of option() with an
\* alias of an option declared before fails with invalid_argument at the
\* call and leaves options_ as it was, and parse of a token vector never
\* fails with invalid_argument.
C15_AliasesUnique ==
    [][ /\ UniqueAliases
        /\ (OptionCall
            /\ \E k \in 1..Len(parser.options_) :
                   AliasSet(PassedAliases) \cap AliasSet(parser.options_[k].aliases_) # {})
           => /\ outcome' = invalid_argument
              /\ parser'.options_ = parser.options_
        /\ (pc # "idle" /\ pc' = "idle") => outcome'.type # "invalid_argument" ]_vars

\* a was declared, then option() was called with the aliases a and b and
\* failed
C15_Witness ==
    /\ Declaring
    /\ outcome = invalid_argument
    /\ Len(parser.options_) = 1
    /\ parser.options_[1].aliases_ = << <<"a">> >>
    /\ Len(parser.freed_) = 1
    /\ parser.freed_[1].aliases_ = << <<"a">>, <<"b">> >>

\* the numbers of single-character and of longer aliases in a list
ShortCount(aliases) == Cardinality({n \in 1..Len(aliases) : Len(aliases[n]) = 1})
LongCount(aliases) == Cardinality({n \in 1..Len(aliases) : Len(aliases[n]) > 1})

\* C16: option() fails with invalid_argument, declaring nothing, for an
\* alias list that is empty, holds an empty string, holds more than one
\* single-character alias or holds more than one longer alias; so every
\* declared option has at most one short name, at most one long name and at
\* least one of them.
C16_AliasListValidated ==
    [][ /\ (/\ OptionCall
            /\ \/ Len(PassedAliases) = 0
               \/ \E n \in 1..Len(PassedAliases) : Len(PassedAliases[n]) = 0
               \/ ShortCount(PassedAliases) > 1
               \/ LongCount(PassedAliases) > 1)
           => /\ outcome' = invalid_argument
              /\ parser'.options_ = parser.options_
        /\ \A k \in 1..Len(parser.options_) :
               /\ ShortCount(parser.options_[k].aliases_) <= 1
               /\ LongCount(parser.options_[k].aliases_) <= 1
               /\ Len(parser.options_[k].aliases_) >= 1 ]_vars

\* C17: once argument_list() has been called, a call of argument() and a
\* call of argument_list() fail with logic_error and change nothing; so no
\* step adds a positional or replaces the list slot after that.
C17_ListIsLastAndUnique ==
    [][ parser.additional_arguments_.has_value
        => /\ argument(parser) = [parser |-> parser, exc |-> logic_error]
           /\ argument_list(parser) = [parser |-> parser, exc |-> logic_error]
           /\ Len(parser'.positional_arguments_) = Len(parser.positional_arguments_)
           /\ parser'.additional_arguments_.has_value
           /\ parser.additional_arguments_.handler_.kind # "none"
                  => parser'.additional_arguments_ = parser.additional_arguments_ ]_vars

\* argument_list() was called on a parser with nothing else declared, and
\* the call after it (argument() or argument_list()) failed with logic_error
C17_Witness ==
    /\ Declaring
    /\ parser.additional_arguments_.has_value
    /\ parser.additional_arguments_.handler_.kind = "none"
    /\ parser.next_id = 1
    /\ Len(parser.positional_arguments_) = 0
    /\ outcome = logic_error

\* parse ends in this step: it returns, throws, or the process ends
ParseEnds == pc \in {"scan", "verify", "positional"} /\ pc' \in {"idle", "crashed"}

\* a positional with a default is declared before a positional that has a
\* value type and no default
DefaultBeforeMandatory ==
    \E k, j \in 1..Len(parser.positional_arguments_) :
        /\ k < j
        /\ parser.positional_arguments_[k].has_default
        /\ parser.positional_arguments_[j].kind # "none"
        /\ ~parser.positional_arguments_[j].has_default

\* C18: a parser in which a positional with a default is followed by a
\* positional without one is rejected with a logic error by parse at the
\* latest: every parse of such a parser, whatever the tokens, ends with
\* logic_error.
C18_DefaultsAreSuffix ==
    [][ (ParseEnds /\ DefaultBeforeMandatory) => outcome' = logic_error ]_vars

\* a positional, or the argument list, was declared and no value type was
\* configured for it
Unconfigured ==
    \/ \E k \in 1..Len(parser.positional_arguments_) :
           parser.positional_arguments_[k].kind = "none"
    \/ /\ parser.additional_arguments_.has_value
       /\ parser.additional_arguments_.handler_.kind = "none"

\* C19: every parse of a parser with a positional or an argument list that
\* has no value type configured, whatever the tokens, ends with logic_error.
C19_UnconfiguredSlotRejected ==
    [][ (ParseEnds /\ Unconfigured) => outcome' = logic_error ]_vars

\* the value slots of the registry: those of the options, the positionals and
\* the argument list
Slots ==
    {parser.options_[k].handler_ : k \in 1..Len(parser.options_)}
        \cup {parser.positional_arguments_[k] : k \in 1..Len(parser.positional_arguments_)}
        \cup (IF parser.additional_arguments_.has_value
              THEN {parser.additional_arguments_.handler_} ELSE {})

\* C20: int_val / string_val (custom_val) with an empty display name or a
\* null destination fails with invalid_argument and leaves the slot as it
\* was, on every slot of an option, a positional or the list that the
\* declarations reach; an option whose
\* slot was not configured before is still an option without a value
\* (arg_type no_arg) afterwards.
C20_BadNameOrDestRejected ==
    [][ /\ (Declaring /\ pc' = "idle")
           => \A h \in Slots, kind \in {"int", "string"}, multi \in BOOLEAN :
                  \A name \in ValueNames, dest \in {"", "o_val"} :
                      (name = EmptyStr \/ dest = "")
                      => custom_val(h, kind, multi, name, dest)
                             = [handler |-> h, exc |-> invalid_argument]
        /\ (Declaring /\ ~OptionCall /\ outcome' = invalid_argument)
           => /\ parser' = parser
              /\ \A k \in 1..Len(parser.options_) :
                     arg_type(parser'.options_[k]) = arg_type(parser.options_[k]) ]_vars

\* one option was declared, then int_val / string_val on it with an empty
\* name or a null destination failed: the option still takes no value
C20_Witness ==
    /\ Declaring
    /\ outcome = invalid_argument
    /\ parser.next_id = 2
    /\ Len(parser.options_) = 1
    /\ arg_type(parser.options_[1]) = "no_arg"
    /\ Len(parser.positional_arguments_) = 0
    /\ ~parser.additional_arguments_.has_value

\* the step is a call of int_val / string_val, of between, of from by the
\* configuring host; call' holds the call and its arguments
ValCall == Declaring /\ pc' = "idle" /\ call'.op \in {"int", "string"}
BetweenCall == Declaring /\ pc' = "idle" /\ call'.op = "between"
FromCall == Declaring /\ pc' = "idle" /\ call'.op = "from"

\* C21: int_val / string_val (custom_val) on a value slot, of the option or
\* of the positional, that already holds a configuration fails with a logic
\* error (std::logic_error when the name and the destination are acceptable,
\* else its subclass std::invalid_argument) and leaves the registry, and so
\* the first coercer, name and destination, as it was.
C21_SecondConfigurationRejected ==
    [][ (ValCall /\ slot_handler(parser, call'.slot).kind # "none")
        => /\ outcome'.type \in {"logic_error", "invalid_argument"}
           /\ (call'.name # EmptyStr /\ call'.dest # "") => outcome' = logic_error
           /\ parser' = parser
           /\ mem' = mem ]_vars

\* string_val("val", &m_val) on the option that int_val had configured
\* failed with logic_error: the option still holds the int configuration
C21_Witness ==
    /\ Declaring
    /\ call = [NoCall EXCEPT !.op = "string", !.slot = "option",
                             !.name = <<"v", "a", "l">>, !.dest = "m_val"]
    /\ outcome = logic_error
    /\ parser.options_[1].handler_.kind = "int"
    /\ parser.options_[1].handler_.dest = "o_val"

\* C22: between(min, max) with min > max fails with a logic error at the
\* call and leaves the bounds the slot had; with min <= max it returns and
\* the slot has the bounds min and max.
C22_BetweenChecksOrder ==
    [][ BetweenCall
        => IF call'.min > call'.max
           THEN /\ outcome' = logic_error
                /\ parser' = parser
           ELSE /\ outcome'.type = "returned"
                /\ slot_handler(parser', call'.slot).min_value_ = call'.min
                /\ slot_handler(parser', call'.slot).max_value_ = call'.max ]_vars

\* the integers whose decimal text is tried as a value
TriedIntegers == 0..18

\* the int value slot h of the option written as name was supplied with the
\* decimal text of v in this step: v is stored and the option is finished
\* when v is within the bounds of h, else parse ends with BadValue(name,
\* text)
SuppliedInt(h, name, v) ==
    IF h.min_value_ <= v /\ v <= h.max_value_
    THEN /\ mem'[h.dest] = IntV(v)
         /\ current_option' = nullptr
         /\ pc' = "scan"
         /\ outcome' = outcome
    ELSE /\ pc' = "idle"
         /\ outcome' = BadValue(name, to_string(v))

\* C23: an option with an int value and the bounds min and max (those of
\* between, inclusive) that is supplied with the decimal text of an integer
\* v, attached to the long form or as the following token, stores exactly v
\* when min <= v <= max; when v is outside the bounds parse fails with
\* BadValue whose value is that text.
C23_BetweenAcceptsExactlyTheRange ==
    [][ \A v \in TriedIntegers :
          /\ (/\ AtOptionToken
              /\ AttachesValue(parser, args[i + 1])
              /\ Named(parser, args[i + 1]).handler_.kind = "int"
              /\ AttachedValue(args[i + 1]) = to_string(v))
             => SuppliedInt(Named(parser, args[i + 1]).handler_, LongName(args[i + 1]), v)
          /\ (/\ PendingWithoutValue
              /\ i < Len(args)
              /\ Deref(parser, current_option).handler_.kind = "int"
              /\ args[i + 1] = to_string(v))
             => SuppliedInt(Deref(parser, current_option).handler_,
                            WrittenName(args[i]), v) ]_vars

\* the string value slot h was handed the text in this step, and the text
\* is acceptable (no allowed set, or the text is one of the allowed values):
\* the destination holds the text unchanged
AllowedBy(h, text) ==
    Len(h.values_) = 0 \/ \E k \in 1..Len(h.values_) : h.values_[k] = text

\* C24: a string value slot accepts a token exactly when no allowed set was
\* configured with from or the token equals one of the allowed values, and
\* then stores the token unchanged; every other token is rejected (as a
\* bad_value of the option, as the coercer's format_error for the
\* positional).  from with an empty list fails at the call and changes
\* nothing.
C24_FromAcceptsExactlyTheAllowed ==
    [][ /\ (/\ AtOptionToken
            /\ AttachesValue(parser, args[i + 1])
            /\ Named(parser, args[i + 1]).handler_.kind = "string")
           => LET h == Named(parser, args[i + 1]).handler_
                  text == AttachedValue(args[i + 1])
              IN  IF AllowedBy(h, text)
                  THEN mem'[h.dest] = StrV(text) /\ pc' = "scan"
                  ELSE pc' = "idle" /\ outcome'.type = "bad_value"
        /\ (/\ PendingWithoutValue
            /\ i < Len(args)
            /\ Deref(parser, current_option).handler_.kind = "string")
           => LET h == Deref(parser, current_option).handler_
              IN  IF AllowedBy(h, args[i + 1])
                  THEN mem'[h.dest] = StrV(args[i + 1]) /\ pc' = "scan"
                  ELSE pc' = "idle" /\ outcome'.type = "bad_value"
        /\ (/\ pc = "positional"
            /\ i < Len(args)
            /\ positional_slot(parser, pos).kind = "string")
           => LET h == positional_slot(parser, pos)
              IN  IF AllowedBy(h, args[i + 1])
                  THEN mem'[h.dest] = StrV(args[i + 1]) /\ pc' = "positional"
                  ELSE pc' = "idle" /\ outcome'.type \in {"bad_value", "format_error"}
        /\ (FromCall /\ call'.values = << >>)
           => (outcome' = invalid_argument /\ parser' = parser) ]_vars

RECURSIVE ScannedSeparately(_, _, _, _, _)
ScannedSeparately(P, M, co, on, tokens) ==
    LET next(r) ==
            IF r.exc.type # "none" \/ r.ctl # "continue" \/ Len(tokens) = 1
            THEN r
            ELSE ScannedSeparately(r.parser, r.mem, r.current_option, r.option_name,
                                   Tail(tokens))
    IN  next(scan_token(P, M, co, on, Head(tokens)))

\* the token is -abc: a and b are letters of options without a value, c is
\* the letter of an option with a value
Condensed(P, t) ==
    /\ Len(t) = 4
    /\ IsShortToken(t)
    /\ \A k \in 2..3 : /\ Declared(P, <<t[k]>>) # 0
                        /\ arg_type(P.options_[Declared(P, <<t[k]>>)]) = "no_arg"
    /\ Declared(P, <<t[4]>>) # 0
    /\ arg_type(P.options_[Declared(P, <<t[4]>>)]) # "no_arg"

\* C26: the option loop leaves the token -abc (a, b options without a value,
\* c an option with a value) in the loop state in which the three tokens -a
\* -b -c leave it: the same found flags, observation cells and
\* destinations, the same option awaiting its value under the same name (or
\* the same error), so that whatever tokens follow are treated alike.
C26_CondensedEqualsSeparate ==
    [][ (AtOptionToken /\ Condensed(parser, args[i + 1]))
        => \E r \in {ScannedSeparately(parser, mem, nullptr, option_name,
                           << <<"-", args[i + 1][2]>>, <<"-", args[i + 1][3]>>,
                              <<"-", args[i + 1][4]>> >>)} :
               /\ parser' = r.parser
               /\ mem' = r.mem
               /\ current_option' = r.current_option
               /\ option_name' = r.option_name
               /\ IF r.exc.type = "none"
                  THEN pc' = "scan" /\ i' = i + 1 /\ outcome' = outcome
                  ELSE pc' = "idle" /\ outcome' = r.exc ]_vars

\* the token -abc was scanned and then x: a and b are observed, c is found
\* and took x as its value
C26_Witness ==
    /\ pc = "scan"
    /\ i = 3
    /\ args[2] = <<"-", "a", "b", "c">>
    /\ args[3] = <<"x">>
    /\ mem["a_flag"].b /\ mem["b_flag"].b /\ mem["c_flag"].b
    /\ mem["c_val"] = StrV(<<"x">>)
    /\ current_option = nullptr

\* the token that supplies an option under the alias: -V for a one-letter
\* alias, --version for a longer one
FormOf(alias) == IF Len(alias) = 1 THEN <<"-">> \o alias ELSE <<"-", "-">> \o alias

\* the token is one form of a declared option and nothing else: a single
\* letter after "-", or a name after "--" without "="
SuppliesOption(P, t) ==
    /\ \/ IsShortToken(t) /\ Len(t) = 2
       \/ IsLongToken(t) /\ ~HasEquals(t)
    /\ Declared(P, WrittenName(t)) # 0

\* the forms of the option the token supplies, one for each of its aliases
FormsOf(P, t) ==
    LET as == Named(P, t).aliases_ IN {FormOf(as[n]) : n \in 1..Len(as)}

\* C27: a token that supplies an option under one of its aliases has the
\* effect every other form of the same option would have had in its place:
\* the same option is marked found, the same observation cell is set and the
\* same option awaits its value; and the value token after it is written to
\* the same destination whichever alias the option was supplied under.
C27_ShortAndLongFormAgree ==
    [][ /\ (AtOptionToken /\ SuppliesOption(parser, args[i + 1]))
           => \A u \in FormsOf(parser, args[i + 1]) :
                 \E r \in {scan_token(parser, mem, nullptr, option_name, u)} :
                    /\ parser' = r.parser
                    /\ mem' = r.mem
                    /\ current_option' = r.current_option
                    /\ r.exc.type = "none"
                    /\ pc' = "scan"
        /\ (Pending /\ i < Len(args) /\ args[i + 1] # Separator)
           => \A u \in FormsOf(parser, args[i]) :
                 \E r \in {scan_token(parser, mem, current_option, WrittenName(u),
                                      args[i + 1])} :
                    /\ parser' = r.parser
                    /\ mem' = r.mem
                    /\ current_option' = r.current_option
                    /\ r.exc.type = "none" ]_vars

\* --cc x was scanned: the option declared as c / cc is found, observed, and
\* its destination holds x
C27_Witness ==
    /\ pc = "scan"
    /\ i = 3
    /\ args[2] = <<"-", "-", "c", "c">>
    /\ args[3] = <<"x">>
    /\ FormsOf(parser, args[2]) = {<<"-", "c">>, <<"-", "-", "c", "c">>}
    /\ Named(parser, args[2]).found_
    /\ mem["c_flag"].b
    /\ mem["c_val"] = StrV(<<"x">>)

\* the positions in options_ of the options the option loop matches in the
\* token: the option a long token names, and for a short token the option of
\* every letter the loop comes to
MatchedBy(P, t) ==
    IF IsLongToken(t) THEN {Declared(P, LongName(t))} \ {0}
    ELSE IF IsShortToken(t)
    THEN {Declared(P, <<t[k]>>) : k \in {j \in 2..Len(t) : FlagsBefore(P, t, j)}} \ {0}
    ELSE {}

\* an option declared without an observation destination was not supplied
Unobserved(P, k) == P.options_[k].flag_dest_ = "" /\ ~P.options_[k].found_

\* C28: an option declared with an observation destination is never
\* required: the check after the option scan raises missing_option only for
\* an option declared without one, and passes when every such option was
\* found.  An iteration of the option scan sets to true the cell of every
\* option it matches and marks the option found, and a cell changes only in
\* an iteration that matches an option observing it, and only to true.
C28_ObservedOptionIsOptional ==
    [][ /\ (pc = "verify" /\ current_option = nullptr)
           => IF \E k \in 1..Len(parser.options_) : Unobserved(parser, k)
              THEN /\ pc' = "idle"
                   /\ outcome'.type = "missing_option"
                   /\ \E k \in 1..Len(parser.options_) :
                          /\ Unobserved(parser, k)
                          /\ outcome'.name = parser.options_[k].aliases_[1]
              ELSE pc' = "positional" /\ outcome' = outcome
        /\ (AtOptionToken /\ pc' # "crashed")
           => \A k \in MatchedBy(parser, args[i + 1]) :
                 /\ parser'.options_[k].found_
                 /\ parser.options_[k].flag_dest_ # ""
                    => mem'[parser.options_[k].flag_dest_] = BoolV(TRUE)
        /\ \A c \in FlagCells :
              mem'[c] # mem[c]
              => /\ AtOptionToken
                 /\ mem'[c] = BoolV(TRUE)
                 /\ \E k \in MatchedBy(parser, args[i + 1]) :
                        parser.options_[k].flag_dest_ = c ]_vars

\* the parse of the token x passed the check after the option scan although
\* the option declared with the observation cell a_flag was not supplied,
\* and the cell is as it was
C28_Witness ==
    /\ pc = "positional"
    /\ calls = 1
    /\ args = <<ProgramName, <<"x">> >>
    /\ \E k \in 1..Len(parser.options_) :
           /\ parser.options_[k].flag_dest_ = "a_flag"
           /\ ~parser.options_[k].found_
    /\ mem["a_flag"] = BoolV(FALSE)

\* the k-th of the tokens the option scan left, of which pos are assigned
RemainingToken(k) == args[(i - pos) + k]

\* the first pos remaining tokens are where they belong: the k-th one in
\* the destination of the k-th single-valued positional, the positionals
\* beyond pos untouched, and the tokens beyond the positionals in the
\* destination of the list, in input order
AssignedInOrder ==
    LET n == Len(parser.positional_arguments_)
        list == parser.additional_arguments_.handler_
    IN  /\ \A k \in 1..n :
               mem[parser.positional_arguments_[k].dest] =
                   IF k <= pos THEN StrV(RemainingToken(k))
                   ELSE InitialMem[parser.positional_arguments_[k].dest]
        /\ mem[list.dest] =
               ListV([k \in 1..(IF pos > n THEN pos - n ELSE 0) |->
                          StrV(RemainingToken(n + k))])

PlainToken(t) == Len(t) = 0 \/ t[1] # "-" \/ t = <<"-">>

\* the slot the positional loop has come to
SlotAtPos ==
    IF pos < Len(parser.positional_arguments_)
    THEN parser.positional_arguments_[pos + 1]
    ELSE parser.additional_arguments_.handler_

\* C30: with no option awaiting a value, the option scan stops at the first
\* token that does not start with "-" or is "-" alone, without consuming it
\* and without any effect; the scan is never resumed, and every token from
\* that one on, one that looks like an option or "--" included, is stored as
\* written in the positional slot of its position and marks no option found.
C30_ScanStopsAtFirstPositional ==
    [][ /\ (pc = "scan" /\ i < Len(args) /\ current_option = nullptr
                        /\ PlainToken(args[i + 1]))
           => /\ pc' = "verify"
              /\ i' = i
              /\ parser' = parser
              /\ mem' = mem
        /\ (pc = "scan" /\ pc' = "scan")
           => /\ i' = i + 1
              /\ current_option # nullptr \/ ~PlainToken(args[i + 1])
        /\ (pc = "positional" /\ i < Len(args))
           => /\ pc' = "positional"
              /\ parser' = parser
              /\ \A c \in DOMAIN mem :
                    mem'[c] = IF c # SlotAtPos.dest THEN mem[c]
                              ELSE IF SlotAtPos.multi
                              THEN ListV(Append(mem[c].l, StrV(args[i + 1])))
                              ELSE StrV(args[i + 1]) ]_vars

\* the tokens x -a -- were parsed: the scan stopped at x, -a and -- are the
\* values of the second positional and of the list, and a was not observed
C30_Witness ==
    /\ pc = "positional"
    /\ args = <<ProgramName, <<"x">>, <<"-", "a">>, <<"-", "-">> >>
    /\ i = 4
    /\ mem["p1_val"] = StrV(<<"x">>)
    /\ mem["p2_val"] = StrV(<<"-", "a">>)
    /\ mem["l_val"] = ListV(<< StrV(<<"-", "-">>) >>)
    /\ mem["a_flag"] = BoolV(FALSE)
    /\ \A k \in 1..Len(parser.options_) : ~parser.options_[k].found_

\* the effect of a long token on a declared option opt: found, observed, and
\* its value requirement resolved with the attached value, if there is one
LongTokenResolved(opt, name, t) ==
    /\ \E k \in 1..Len(parser'.options_) :
           parser'.options_[k].id = opt.id /\ parser'.options_[k].found_
    /\ opt.flag_dest_ # "" => mem'[opt.flag_dest_] = BoolV(TRUE)
    /\ IF arg_type(opt) = "no_arg"
       THEN IF HasEquals(t)
            THEN /\ pc' = "idle"
                 /\ outcome'.type = "bad_value"
                 /\ outcome'.name = name
            ELSE pc' = "scan" /\ current_option' = nullptr
       ELSE IF HasEquals(t)
       THEN /\ pc' = "scan"
            /\ current_option' = nullptr
            /\ mem'[opt.handler_.dest] = StrV(AttachedValue(t))
       ELSE IF arg_type(opt) = "optional"
       THEN /\ pc' = "scan"
            /\ current_option' = nullptr
            /\ mem'[opt.handler_.dest] = opt.handler_.default
       ELSE /\ pc' = "scan"
            /\ current_option' = opt.id
            /\ option_name' = name
            /\ mem'[opt.handler_.dest] = mem[opt.handler_.dest]

\* C31: a long token --X is split at its first "=": the text before it is
\* the name and everything after it, empty or with further "=" in it, is
\* the attached value; without "=" all of X is the name and no value is
\* attached.  The name is what is looked up, so that an undeclared name
\* raises bad_option with that name and a declared one has its option found
\* and its value requirement resolved with the attached value, and the name
\* is what an error of the option reports.
C31_LongTokenSplitsAtFirstEquals ==
    [][ (AtOptionToken /\ IsLongToken(args[i + 1]))
        => IF Declared(parser, LongName(args[i + 1])) = 0
           THEN /\ pc' = "idle"
                /\ outcome' = bad_option(LongName(args[i + 1]))
                /\ parser' = parser
                /\ mem' = mem
           ELSE LongTokenResolved(parser.options_[Declared(parser, LongName(args[i + 1]))],
                                  LongName(args[i + 1]), args[i + 1]) ]_vars

\* the token --cc=x=y was scanned: the option cc is found and its
\* destination holds x=y
C31_Witness ==
    /\ pc = "scan"
    /\ i = 2
    /\ args[2] = <<"-", "-", "c", "c", "=", "x", "=", "y">>
    /\ mem["c_flag"].b
    /\ mem["c_val"] = StrV(<<"x", "=", "y">>)
    /\ current_option = nullptr

\* the destinations of the positional slots
PositionalCells == {"p_val", "p1_val", "p2_val", "l_val"}

UnboundedInt(h) ==
    h.kind = "int" /\ h.min_value_ = INT_MIN /\ h.max_value_ = INT_MAX

\* C33: an int value slot on which between was not called accepts every
\* decimal numeral of an int, zero included: an option with such a slot
\* that is supplied with the text of an integer v, attached to the long
\* form or as the following token, stores exactly v and the scan goes on.
C33_UnboundedIntAcceptsNumerals ==
    [][ \A v \in TriedIntegers :
          /\ (/\ AtOptionToken
              /\ AttachesValue(parser, args[i + 1])
              /\ UnboundedInt(Named(parser, args[i + 1]).handler_)
              /\ AttachedValue(args[i + 1]) = to_string(v))
             => /\ pc' = "scan"
                /\ current_option' = nullptr
                /\ mem'[Named(parser, args[i + 1]).handler_.dest] = IntV(v)
          /\ (/\ PendingWithoutValue
              /\ i < Len(args)
              /\ UnboundedInt(Deref(parser, current_option).handler_)
              /\ args[i + 1] = to_string(v))
             => /\ pc' = "scan"
                /\ current_option' = nullptr
                /\ mem'[Deref(parser, current_option).handler_.dest] = IntV(v) ]_vars

\* what a call of parse still has before it: the tokens from the cursor on,
\* in each of which the option loop, the checks after it and the positional
\* loop come one after the other
StepsAhead ==
    3 * (Len(args) - i) + (CASE pc = "scan" -> 2
                             [] pc = "verify" -> 1
                             [] OTHER -> 0)

\* C34: every call of parse terminates, returning or raising.  Within a
\* call the token vector is fixed, the token cursor moves forward by at most
\* one token in a step and never back, every step either ends the call or
\* leaves less ahead (fewer tokens, or the same tokens and a later phase), so
\* that no token is looked at again once the cursor has passed it, and the
\* letter index of a short token ends within the token.
C34_ParseTerminates ==
    /\ [][ /\ (pc # "idle")
              => \/ pc' = "idle"
                 \/ /\ args' = args
                    /\ i' \in {i, i + 1}
                    /\ StepsAhead' < StepsAhead
           /\ (AtOptionToken /\ IsShortToken(args[i + 1]))
              => \E c \in {condensed_flags(parser, mem, args[i + 1], 0, nullptr)} :
                    c.flag_pos \in 1..(Len(args[i + 1]) - 1) ]_vars
    /\ (pc # "idle") ~> (pc = "idle")

\* a call on three tokens has come to its end: an option cluster, the value
\* of its last option and a positional token were each passed once
C34_Witness ==
    /\ pc = "idle"
    /\ calls = 1
    /\ args = <<ProgramName, <<"-", "a", "b", "c">>, <<"x">>, <<"y">> >>
    /\ i = 4
    /\ outcome.type = "returned"

\* C35: a call of option() that fails leaves the registry as it was before
\* the call: the declared options and both alias maps are unchanged, so
\* that no alias of the rejected list resolves to anything afterwards.
C35_FailedOptionLeavesRegistry ==
    [][ (OptionCall /\ outcome'.type = "invalid_argument")
        => /\ parser'.options_ = parser.options_
           /\ parser'.short_to_option_ = parser.short_to_option_
           /\ parser'.long_to_option_ = parser.long_to_option_ ]_vars

\* the coercer of the slot rejects the text
Rejects(h, text) == config_parse(h, text).exc.type # "none"

\* C36: when the coercer of a slot rejects the token handed to it, parse
\* raises and writes nothing: the destination of the slot, a cell or a list,
\* is as it was before the token, and so is every destination written by
\* earlier tokens.
C36_RejectedTokenWritesNothing ==
    [][ /\ (/\ Pending
            /\ i < Len(args)
            /\ args[i + 1] # Separator
            /\ Rejects(Deref(parser, current_option).handler_, args[i + 1]))
           => /\ pc' = "idle"
              /\ outcome'.type = "bad_value"
              /\ mem' = mem
        /\ (/\ pc = "positional"
            /\ i < Len(args)
            /\ Rejects(SlotAtPos, args[i + 1]))
           => /\ pc' = "idle"
              /\ outcome'.type = "format_error"
              /\ mem' = mem ]_vars

\* the tokens x x y were parsed: the list rejected y and still holds the x
\* it took before, and the positional holds its x
C36_Witness ==
    /\ pc = "idle"
    /\ calls = 1
    /\ args = <<ProgramName, <<"x">>, <<"x">>, <<"y">> >>
    /\ i = 3
    /\ outcome.type = "format_error"
    /\ mem["p1_val"] = StrV(<<"x">>)
    /\ mem["l_val"] = ListV(<< StrV(<<"x">>) >>)

\* C37: between two tokens of the option scan the option awaiting a value,
\* if there is one (current_option holds at most one), is a declared option
\* whose value is mandatory and that is already marked found; the next token
\* either is coerced as its value, which clears it, or ends the parse with
\* an error: bad_value when the coercer rejects it, missing_value when it
\* is "--".
C37_PendingIsMandatoryAndFound ==
    [][ /\ (pc' = "scan" /\ current_option' # nullptr)
           => /\ Live(parser', current_option')
              /\ arg_type(Deref(parser', current_option')) = "mandatory"
              /\ Deref(parser', current_option').found_
        /\ (Pending /\ i < Len(args))
           => \/ /\ pc' = "scan"
                 /\ current_option' = nullptr
                 /\ i' = i + 1
                 /\ ~Rejects(Deref(parser, current_option).handler_, args[i + 1])
              \/ /\ pc' = "idle"
                 /\ outcome'.type = "bad_value"
              \/ /\ args[i + 1] = Separator
                 /\ pc' = "verify"
                 /\ current_option' = current_option
        /\ (pc = "verify" /\ current_option # nullptr)
           => /\ pc' = "idle"
              /\ outcome'.type = "missing_value" ]_vars

\* the token -o was scanned and the option o, whose int value is mandatory,
\* is found and awaits its value
C37_Witness ==
    /\ pc = "scan"
    /\ i = 2
    /\ args[2] = <<"-", "o">>
    /\ current_option # nullptr
    /\ Deref(parser, current_option).aliases_ = << <<"o">>, <<"o", "o">> >>
    /\ Deref(parser, current_option).handler_.kind = "int"
    /\ Deref(parser, current_option).found_

\* C38: when the option scan ends, at the end of the tokens or at "--",
\* while an option awaits its value, the option stays awaited and parse
\* raises missing_value with the name the option was written with, before
\* the mandatory options are verified: missing_option is not raised even
\* when a mandatory option was not found.
C38_MissingValueBeforeVerification ==
    [][ /\ (Pending /\ (i >= Len(args) \/ args[i + 1] = Separator))
           => /\ pc' = "verify"
              /\ current_option' = current_option
              /\ option_name' = option_name
              /\ parser' = parser
              /\ mem' = mem
        /\ (pc = "verify" /\ current_option # nullptr)
           => /\ pc' = "idle"
              /\ outcome' = missing_value(option_name)
              /\ option_name \in AliasSet(Deref(parser, current_option).aliases_)
              /\ mem' = mem ]_vars

\* the parse of -o -- raised missing_value for o although a mandatory
\* option was not found
C38_Witness ==
    /\ pc = "idle"
    /\ calls = 1
    /\ args = <<ProgramName, <<"-", "o">>, <<"-", "-">> >>
    /\ outcome = missing_value(<<"o">>)
    /\ \E k \in 1..Len(parser.options_) : Unobserved(parser, k)

\* the effect of a one-letter token on a declared option opt: found,
\* observed, and its value requirement resolved without a value
ShortTokenResolved(opt, name) ==
    /\ \E k \in 1..Len(parser'.options_) :
           parser'.options_[k].id = opt.id /\ parser'.options_[k].found_
    /\ opt.flag_dest_ # "" => mem'[opt.flag_dest_] = BoolV(TRUE)
    /\ pc' = "scan"
    /\ IF arg_type(opt) = "no_arg" THEN current_option' = nullptr
       ELSE IF arg_type(opt) = "optional"
       THEN current_option' = nullptr /\ mem'[opt.handler_.dest] = opt.handler_.default
       ELSE current_option' = opt.id /\ option_name' = name

\* C39: an occurrence of an option that was already found in the same
\* token vector is resolved as the first one was, without error, whatever
\* its destination holds: an attached value is coerced and stored, a
\* defaulted option without a value stores its default, an option with a
\* mandatory value takes the next token; so the destination holds the value
\* of the last occurrence.
C39_RepeatedOptionLastWins ==
    [][ /\ (/\ AtOptionToken
            /\ SuppliesOption(parser, args[i + 1]) \/ AttachesValue(parser, args[i + 1])
            /\ Named(parser, args[i + 1]).found_)
           => IF IsLongToken(args[i + 1])
              THEN LongTokenResolved(Named(parser, args[i + 1]), LongName(args[i + 1]),
                                     args[i + 1])
              ELSE ShortTokenResolved(Named(parser, args[i + 1]), WrittenName(args[i + 1]))
        /\ (/\ Pending
            /\ i < Len(args)
            /\ args[i + 1] # Separator
            /\ mem[Deref(parser, current_option).handler_.dest] # StrV(EmptyStr))
           => /\ pc' = "scan"
              /\ current_option' = nullptr
              /\ mem'[Deref(parser, current_option).handler_.dest] = StrV(args[i + 1]) ]_vars

\* the tokens --dd=x -d were scanned: the destination of d held x after the
\* first and holds the default after the second
C39_Witness ==
    /\ pc = "scan"
    /\ i = 3
    /\ args[2] = <<"-", "-", "d", "d", "=", "x">>
    /\ args[3] = <<"-", "d">>
    /\ mem["d_val"] = StrV(<<"d">>)
    /\ current_option = nullptr

\* the positional loop is before a token that goes to the list
AtListToken ==
    /\ pc = "positional"
    /\ i < Len(args)
    /\ pos >= Len(parser.positional_arguments_)
    /\ parser.additional_arguments_.has_value

\* C40: parse never removes elements from the destination of the list.  A
\* call starts with the sequence as the calls before left it; the sequence
\* changes only when the positional loop hands a leftover token to the list,
\* and then the coerced token is appended at its end; so after a call the
\* sequence is what it was before the call followed by the leftover tokens
\* in input order, and consecutive calls accumulate.
C40_ListAccumulates ==
    [][ /\ (pc = "idle" /\ pc' = "scan") => mem' = mem
        /\ (mem'["l_val"] # mem["l_val"]) => AtListToken
        /\ AtListToken
           => IF Rejects(parser.additional_arguments_.handler_, args[i + 1])
              THEN mem'["l_val"] = mem["l_val"]
              ELSE /\ mem'["l_val"] = ListV(Append(mem["l_val"].l, StrV(args[i + 1])))
                   /\ i' = i + 1
                   /\ pc' = "positional" ]_vars

\* the second call, on the tokens x x, returned: the list holds the x of
\* the first call followed by the x of the second
C40_Witness ==
    /\ pc = "idle"
    /\ calls = 2
    /\ outcome.type = "returned"
    /\ args = <<ProgramName, <<"x">>, <<"x">> >>
    /\ mem["l_val"] = ListV(<< StrV(<<"x">>), StrV(<<"x">>) >>)

====
